---- MODULE Spec2Model ----
(***************************************************************************)
(* Model of the lexical-analysis core of Thesaurus Buddy                   *)
(* (src/src/utils/textProcessing.js, src/src/utils/weakWordDetector.js,    *)
(* utils/posDetection.js in src/unnamed/part_001, utils/topicExtraction.js *)
(* in src/unnamed/part_002, config/settings.js in src/unnamed/part_000).   *)
(*                                                                         *)
(* A JavaScript string is a sequence of one-character strings; positions   *)
(* are 0-based as in the source, so character i of s is s[i + 1].          *)
(***************************************************************************)
EXTENDS Integers, Sequences, FiniteSets, TLC

VARIABLES
  text,             \* the text buffer handed to the operation
  index,            \* the cursor offset handed to the boundary resolvers
  target,           \* replaceWordGlobally: the word to replace
  replacement,      \* replaceWordGlobally / preserveCase: the replacement
  original,         \* preserveCase: the word whose casing is kept
  op,               \* the operation that returned last ("none" before any)
  ret,              \* what it returned
  weakWordPatterns, \* weakWordDetector.js: the cached compiled matcher
  queryWord,        \* detectPOS: the word to classify
  args,             \* the further arguments of the call that returned last
  leftMarker,       \* flagWeakWords: the marker put before a match
  rightMarker,      \* flagWeakWords: the marker put after a match
  ruleSet,          \* the WEAK_WORDS object as it is now
  compilations,     \* history: compileWeakWordPatterns calls since the last reset
  rulesChanged,     \* history: the rule set changed under a compiled matcher
  termFrequencyCache, \* topicExtraction.js: the topic cache, in Map order
  documentFrequency,  \* topicExtraction.js: term -> number of documents
  totalDocuments,     \* topicExtraction.js: documents processed
  useLog,             \* history: fingerprints looked up since the last reset
  currentController,  \* apiClient.js: the request whose controller it is, 0 for null
  requestToken,       \* apiClient.js: the number of queryDatamuse calls so far
  requests,           \* the queryDatamuse calls of the lookups not yet over
  lookups,            \* the lookupWord calls not yet over, in order
  resultsPanel,       \* what the results panel of the page shows
  editor,             \* EditorController: the textarea's value and selection
  history             \* EditorController: the undo history, oldest first

flagArgs == <<leftMarker, rightMarker>>
rulesVars == <<ruleSet, compilations, rulesChanged>>
topicVars == <<termFrequencyCache, documentFrequency, totalDocuments, useLog>>
clientVars ==
  <<currentController, requestToken, requests, lookups, resultsPanel>>
editorVars == <<editor, history>>

vars ==
  <<text, index, target, replacement, original, op, ret, weakWordPatterns,
    queryWord, args, flagArgs, rulesVars, topicVars, clientVars, editorVars>>

(***************************************************************************)
(* Bounds of the model                                                     *)
(***************************************************************************)
MaxLen == 4        \* longest text of the boundary / rewriter specifications
Overshoot == 2     \* how far an offset may lie outside [0, len(text)]
\* the capacity of the topic cache and the unit of the corpus bounds: the
\* source sets MAX_CACHE_SIZE = 100, the model runs with a small capacity
MAX_CACHE_SIZE == 3
\* the longest text that createTextHash keeps whole: the source's default
\* maxLength is 100, the model runs with short documents
maxLength == 8

(***************************************************************************)
(* JavaScript values and string primitives                                 *)
(***************************************************************************)
\* text[i] outside the string
UNDEFINED == "undefined"
\* the value null: a one-element sequence, unlike any string of characters
\* and unlike any array the model holds
NULL == <<"null">>

Max(S) == CHOOSE m \in S : \A x \in S : x <= m
Min(S) == CHOOSE m \in S : \A x \in S : m <= x

\* all sequences over S of length 0..n
SeqsUpTo(S, n) == UNION {[1..k -> S] : k \in 0..n}

\* text[i]
CharAt(s, i) == IF 0 <= i /\ i < Len(s) THEN s[i + 1] ELSE UNDEFINED

\* String.prototype.slice's handling of one relative position
RelIndex(s, k) == IF k < 0 THEN Max({Len(s) + k, 0}) ELSE Min({k, Len(s)})

\* s.slice(from, to)
slice(s, from, to) ==
  LET f == RelIndex(s, from)
      t == RelIndex(s, to)
  IN  IF f < t THEN SubSeq(s, f + 1, t) ELSE <<>>

\* s.slice(from)
sliceFrom(s, from) == slice(s, from, Len(s))

\* s.lastIndexOf(c) for a one-character c: 0-based, -1 when absent
lastIndexOf(s, c) == Max({-1} \cup {i \in 0..(Len(s) - 1) : s[i + 1] = c})

\* s.search(/[...]/) for a character class: 0-based first hit, -1 when none
search(s, class) ==
  LET hits == {i \in 0..(Len(s) - 1) : s[i + 1] \in class}
  IN  IF hits = {} THEN -1 ELSE Min(hits)

(***************************************************************************)
(* Characters of the model and their case mapping                          *)
(***************************************************************************)
LowerSeq ==
  <<"a", "b", "c", "d", "e", "f", "g", "h", "i", "j", "k", "l", "m",
    "n", "o", "p", "q", "r", "s", "t", "u", "v", "w", "x", "y", "z">>
UpperSeq ==
  <<"A", "B", "C", "D", "E", "F", "G", "H", "I", "J", "K", "L", "M",
    "N", "O", "P", "Q", "R", "S", "T", "U", "V", "W", "X", "Y", "Z">>
LowerLetters == {LowerSeq[i] : i \in DOMAIN LowerSeq}
UpperLetters == {UpperSeq[i] : i \in DOMAIN UpperSeq}
Letters == LowerLetters \cup UpperLetters
Digits == {"0", "1", "2", "3", "4", "5", "6", "7", "8", "9"}
\* the class \s, as far as the model's texts go
Whitespace == {" ", "\t", "\n"}

UpperOf ==
  [c \in LowerLetters |-> UpperSeq[CHOOSE i \in DOMAIN LowerSeq : LowerSeq[i] = c]]
LowerOf ==
  [c \in UpperLetters |-> LowerSeq[CHOOSE i \in DOMAIN UpperSeq : UpperSeq[i] = c]]

\* String.prototype.toUpperCase / toLowerCase on one character
UpperChar(c) == IF c \in LowerLetters THEN UpperOf[c] ELSE c
LowerChar(c) == IF c \in UpperLetters THEN LowerOf[c] ELSE c

toUpperCase(s) == [i \in 1..Len(s) |-> UpperChar(s[i])]
toLowerCase(s) == [i \in 1..Len(s) |-> LowerChar(s[i])]

(***************************************************************************)
(* Word class (textProcessing.js)                                          *)
(***************************************************************************)
\* WORD_CLASS: \p{L} \p{N} ' and the hyphen variants
WORD_CLASS == Letters \cup Digits \cup {"'", "-"}

\* WORD_BOUNDARY = [^WORD_CLASS]: one character that is not of the word class
WORD_BOUNDARY(c) == c # UNDEFINED /\ c \notin WORD_CLASS

\* WORD_RE.test(x): x is a character, or undefined, which test() turns into
\* the string "undefined", and that holds letters
WORD_RE_test(x) == x = UNDEFINED \/ x \in WORD_CLASS

(***************************************************************************)
(* getSentenceBounds                                                       *)
(***************************************************************************)
\* the class of /[.!?\n]/
Terminators == {".", "!", "?", "\n"}

\* a left part that takes in the character at the cursor
getSentenceBoundsThroughCursor(t, i) ==
  LET left == slice(t, 0, i + 1)
      right == sliceFrom(t, i)
      lastPeriod == lastIndexOf(left, ".")
      lastExclaim == lastIndexOf(left, "!")
      lastQuestion == lastIndexOf(left, "?")
      lastNewline == lastIndexOf(left, "\n")
      sentStart == Max({0, lastPeriod + 1, lastExclaim + 1,
                        lastQuestion + 1, lastNewline + 1})
      endOffset == search(right, Terminators)
      sentEnd == IF endOffset = -1 THEN Len(t) ELSE i + endOffset + 1
  IN  [sentStart |-> sentStart, sentEnd |-> sentEnd]

\* an end that stops before the terminator
getSentenceBoundsExclusive(t, i) ==
  LET left == slice(t, 0, i)
      right == sliceFrom(t, i)
      lastPeriod == lastIndexOf(left, ".")
      lastExclaim == lastIndexOf(left, "!")
      lastQuestion == lastIndexOf(left, "?")
      lastNewline == lastIndexOf(left, "\n")
      sentStart == Max({0, lastPeriod + 1, lastExclaim + 1,
                        lastQuestion + 1, lastNewline + 1})
      endOffset == search(right, Terminators)
      sentEnd == IF endOffset = -1 THEN Len(t) ELSE i + endOffset
  IN  [sentStart |-> sentStart, sentEnd |-> sentEnd]

getSentenceBounds(t, i) ==
  LET left == slice(t, 0, i)
      right == sliceFrom(t, i)
      lastPeriod == lastIndexOf(left, ".")
      lastExclaim == lastIndexOf(left, "!")
      lastQuestion == lastIndexOf(left, "?")
      lastNewline == lastIndexOf(left, "\n")
      sentStart == Max({0, lastPeriod + 1, lastExclaim + 1,
                        lastQuestion + 1, lastNewline + 1})
      endOffset == search(right, Terminators)
      sentEnd == IF endOffset = -1 THEN Len(t) ELSE i + endOffset + 1
  IN  [sentStart |-> sentStart, sentEnd |-> sentEnd]

(***************************************************************************)
(* getWordFragment                                                         *)
(***************************************************************************)
RECURSIVE ExpandLeftEarly(_, _)
\* a left scan that leaves the character next to the cursor out
ExpandLeftEarly(t, start) ==
  IF start > 1 /\ WORD_RE_test(CharAt(t, start - 1))
  THEN ExpandLeftEarly(t, start - 1)
  ELSE start

RECURSIVE ExpandLeft(_, _)
\* while (start > 0 && WORD_RE.test(text[start - 1])) start--
ExpandLeft(t, start) ==
  IF start > 0 /\ WORD_RE_test(CharAt(t, start - 1))
  THEN ExpandLeft(t, start - 1)
  ELSE start

RECURSIVE ExpandRightPast(_, _)
\* a right scan that tests the bound after the step instead of before it
ExpandRightPast(t, end) ==
  IF end <= Len(t) /\ WORD_RE_test(CharAt(t, end))
  THEN ExpandRightPast(t, end + 1)
  ELSE end

RECURSIVE ExpandRight(_, _)
\* while (end < text.length && WORD_RE.test(text[end])) end++
ExpandRight(t, end) ==
  IF end < Len(t) /\ WORD_RE_test(CharAt(t, end))
  THEN ExpandRight(t, end + 1)
  ELSE end

getWordFragment(t, i) ==
  LET start == ExpandLeft(t, i)
      end == ExpandRight(t, i)
  IN  [word |-> slice(t, start, end), start |-> start, end |-> end]

(***************************************************************************)
(* preserveCase                                                            *)
(***************************************************************************)
\* the class of /^[A-Za-z]/
AsciiLetters == Letters

RECURSIVE SkipWhitespace(_, _)
\* the end of the run of \s+ that starts at s[i]
SkipWhitespace(s, i) ==
  IF i <= Len(s) /\ s[i] \in Whitespace THEN SkipWhitespace(s, i + 1) ELSE i

RECURSIVE SplitFrom(_, _, _, _)
SplitFrom(s, i, cur, acc) ==
  IF i > Len(s) THEN Append(acc, cur)
  ELSE IF s[i] \in Whitespace
       THEN SplitFrom(s, SkipWhitespace(s, i), <<>>, Append(acc, cur))
       ELSE SplitFrom(s, i + 1, Append(cur, s[i]), acc)

\* replacement.split(/\s+/): the pieces between the maximal whitespace runs,
\* an empty piece before a leading run and after a trailing one
splitWhitespace(s) == SplitFrom(s, 1, <<>>, <<>>)

RECURSIVE join(_, _)
\* words.join(sep)
join(words, sep) ==
  IF words = <<>> THEN <<>>
  ELSE IF Len(words) = 1 THEN words[1]
  ELSE words[1] \o sep \o join(Tail(words), sep)

\* a title-casing that upper-cases the first letter and keeps the rest
TitleTokenKeepRest(w) ==
  IF w # <<>> /\ w[1] \in AsciiLetters
  THEN <<UpperChar(w[1])>> \o Tail(w)
  ELSE w

\* w => /^[A-Za-z]/.test(w) ? w[0].toUpperCase() + w.slice(1).toLowerCase() : w
TitleToken(w) ==
  IF w # <<>> /\ w[1] \in AsciiLetters
  THEN <<UpperChar(w[1])>> \o toLowerCase(Tail(w))
  ELSE w

preserveCase(orig, repl) ==
  IF orig = <<>> THEN repl
  ELSE IF orig = toUpperCase(orig) /\ orig # toLowerCase(orig)
       THEN toUpperCase(repl)
  ELSE IF orig[1] = UpperChar(orig[1]) /\ orig[1] # LowerChar(orig[1])
       THEN LET words == splitWhitespace(repl)
            IN  join([k \in 1..Len(words) |-> TitleToken(words[k])], <<" ">>)
  ELSE toLowerCase(repl)

(***************************************************************************)
(* replaceWordGlobally: the pattern (^|B)(target)($|B) with flags g, i, u, *)
(* B = WORD_BOUNDARY, run by String.prototype.replace with a callback      *)
(***************************************************************************)
\* the class of /[.*+?^${}()|[\]\\]/
RegExpSpecials ==
  {".", "*", "+", "?", "^", "$", "{", "}", "(", ")", "|", "[", "]", "\\"}

RECURSIVE escapeRegExp(_)
\* str.replace(/[.*+?^${}()|[\]\\]/g, '\\$&')
escapeRegExp(str) ==
  IF str = <<>> THEN <<>>
  ELSE (IF Head(str) \in RegExpSpecials
        THEN <<"\\", Head(str)>> ELSE <<Head(str)>>) \o escapeRegExp(Tail(str))

RECURSIVE PatternAtoms(_)
\* new RegExp(source): an escaped character is that character, a bare dot is
\* the wildcard, any other character of the model's alphabet is itself
PatternAtoms(src) ==
  IF src = <<>> THEN <<>>
  ELSE IF Head(src) = "\\" /\ Len(src) >= 2
       THEN <<[kind |-> "char", c |-> src[2]]>>
            \o PatternAtoms(SubSeq(src, 3, Len(src)))
  ELSE IF Head(src) = "."
       THEN <<[kind |-> "any", c |-> "."]>> \o PatternAtoms(Tail(src))
  ELSE <<[kind |-> "char", c |-> Head(src)]>> \o PatternAtoms(Tail(src))

\* one pattern character against one text character under the i flag
AtomMatches(atom, ch) ==
  IF atom.kind = "any" THEN ch # "\n" ELSE LowerChar(ch) = LowerChar(atom.c)

\* the pattern characters match the text from position j (0-based)
MatchesAt(t, atoms, j) ==
  /\ j + Len(atoms) <= Len(t)
  /\ \A k \in 1..Len(atoms) : AtomMatches(atoms[k], t[j + k])

\* group 1, (^|B), tried at position i: the alternatives in the order the
\* engine tries them, each with the text it consumes and where the word starts
BeforeGroup(t, i) ==
  (IF i = 0 THEN <<[before |-> <<>>, wordStart |-> 0]>> ELSE <<>>)
  \o (IF i < Len(t) /\ WORD_BOUNDARY(t[i + 1])
      THEN <<[before |-> <<t[i + 1]>>, wordStart |-> i + 1]>> ELSE <<>>)

\* a closing group that accepts any following character
AfterGroupAny(t, e) ==
  IF e = Len(t) THEN [ok |-> TRUE, after |-> <<>>]
  ELSE [ok |-> TRUE, after |-> <<t[e + 1]>>]

\* group 3, ($|B), tried at position e
AfterGroup(t, e) ==
  IF e = Len(t) THEN [ok |-> TRUE, after |-> <<>>]
  ELSE IF WORD_BOUNDARY(t[e + 1]) THEN [ok |-> TRUE, after |-> <<t[e + 1]>>]
  ELSE [ok |-> FALSE, after |-> <<>>]

NoMatch == [found |-> FALSE]

\* the match that starts at position i, if there is one
ExecAt(t, atoms, i) ==
  LET alts == BeforeGroup(t, i)
      good == {k \in 1..Len(alts) :
                 /\ MatchesAt(t, atoms, alts[k].wordStart)
                 /\ AfterGroup(t, alts[k].wordStart + Len(atoms)).ok}
  IN  IF good = {} THEN NoMatch
      ELSE LET a == alts[Min(good)]
               e == a.wordStart + Len(atoms)
               g == AfterGroup(t, e)
           IN  [found |-> TRUE, index |-> i, before |-> a.before,
                word |-> SubSeq(t, a.wordStart + 1, e), after |-> g.after,
                end |-> e + Len(g.after)]

\* pattern.exec(text) from lastIndex: the leftmost match
Exec(t, atoms, lastIndex) ==
  LET starts == {i \in lastIndex..Len(t) : ExecAt(t, atoms, i).found}
  IN  IF starts = {} THEN NoMatch ELSE ExecAt(t, atoms, Min(starts))

\* (match, before, word, after) => before + preserveCase(word, replacement) + after
Replacer(m, repl) == m.before \o preserveCase(m.word, repl) \o m.after

RECURSIVE ReplaceFrom(_, _, _, _)
\* text.replace(pattern, callback) from lastIndex on; a match of a non-empty
\* target is never empty, so the next search starts where the match ended
ReplaceFrom(t, atoms, repl, lastIndex) ==
  LET m == Exec(t, atoms, lastIndex)
  IN  IF ~m.found THEN SubSeq(t, lastIndex + 1, Len(t))
      ELSE SubSeq(t, lastIndex + 1, m.index) \o Replacer(m, repl)
           \o ReplaceFrom(t, atoms, repl, m.end)

replaceWordGlobally(t, tg, repl) ==
  ReplaceFrom(t, PatternAtoms(escapeRegExp(tg)), repl, 0)

(***************************************************************************)
(* The rule set WEAK_WORDS (config/settings.js)                            *)
(***************************************************************************)
intensifiersWords ==
  <<
   <<"v", "e", "r", "y">>, <<"r", "e", "a", "l", "l", "y">>,
   <<"q", "u", "i", "t", "e">>,
   <<"e", "x", "t", "r", "e", "m", "e", "l", "y">>,
   <<"i", "n", "c", "r", "e", "d", "i", "b", "l", "y">>,
   <<"a", "b", "s", "o", "l", "u", "t", "e", "l", "y">>,
   <<"t", "o", "t", "a", "l", "l", "y">>,
   <<"c", "o", "m", "p", "l", "e", "t", "e", "l", "y">>,
   <<"u", "t", "t", "e", "r", "l", "y">>
  >>

vagueWords ==
  <<
   <<"s", "t", "u", "f", "f">>, <<"t", "h", "i", "n", "g", "s">>,
   <<"s", "o", "m", "e", "t", "h", "i", "n", "g">>,
   <<"a", "n", "y", "t", "h", "i", "n", "g">>,
   <<"e", "v", "e", "r", "y", "t", "h", "i", "n", "g">>,
   <<"g", "o", "o", "d">>, <<"b", "a", "d">>, <<"n", "i", "c", "e">>,
   <<"o", "k", "a", "y">>
  >>

fillersWords ==
  <<
   <<"b", "a", "s", "i", "c", "a", "l", "l", "y">>,
   <<"l", "i", "t", "e", "r", "a", "l", "l", "y">>,
   <<"a", "c", "t", "u", "a", "l", "l", "y">>,
   <<"h", "o", "n", "e", "s", "t", "l", "y">>,
   <<"s", "e", "r", "i", "o", "u", "s", "l", "y">>,
   <<"d", "e", "f", "i", "n", "i", "t", "e", "l", "y">>,
   <<"p", "r", "o", "b", "a", "b", "l", "y">>, <<"m", "a", "y", "b", "e">>
  >>

hedgesWords ==
  <<
   <<"j", "u", "s", "t">>, <<"o", "n", "l", "y">>,
   <<"m", "e", "r", "e", "l", "y">>, <<"s", "i", "m", "p", "l", "y">>,
   <<"r", "a", "t", "h", "e", "r">>,
   <<"s", "o", "m", "e", "w", "h", "a", "t">>,
   <<"f", "a", "i", "r", "l", "y">>, <<"p", "r", "e", "t", "t", "y">>,
   <<"q", "u", "i", "t", "e">>
  >>

\* each phrase pattern /\bw1\s+w2...\b/giu as the list of its words
phrases ==
  <<
   <<<<"k", "i", "n", "d">>, <<"o", "f">>>>,
   <<<<"s", "o", "r", "t">>, <<"o", "f">>>>,
   <<<<"a">>, <<"l", "o", "t">>>>,
   <<<<"a">>, <<"b", "i", "t">>>>,
   <<<<"i", "n">>, <<"f", "a", "c", "t">>>>,
   <<<<"y", "o", "u">>, <<"k", "n", "o", "w">>>>,
   <<<<"i">>, <<"m", "e", "a", "n">>>>,
   <<<<"i">>, <<"t", "h", "i", "n", "k">>>>,
   <<<<"i">>, <<"f", "e", "e", "l">>>>,
   <<<<"i">>, <<"b", "e", "l", "i", "e", "v", "e">>>>,
   <<<<"i", "n">>, <<"m", "y">>, <<"o", "p", "i", "n", "i", "o", "n">>>>,
   <<<<"t", "o">>, <<"b", "e">>, <<"h", "o", "n", "e", "s", "t">>>>,
   <<<<"f", "o", "r">>, <<"t", "h", "e">>, <<"m", "o", "s", "t">>, <<"p", "a", "r", "t">>>>
  >>

\* a suggestion text is kept whole, as a one-element sequence
suggestions ==
  <<
   [key |-> <<"v", "e", "r", "y">>,
    value |-> NULL],
   [key |-> <<"r", "e", "a", "l", "l", "y">>,
    value |-> NULL],
   [key |-> <<"q", "u", "i", "t", "e">>,
    value |-> NULL],
   [key |-> <<"e", "x", "t", "r", "e", "m", "e", "l", "y">>,
    value |-> NULL],
   [key |-> <<"i", "n", "c", "r", "e", "d", "i", "b", "l", "y">>,
    value |-> NULL],
   [key |-> <<"a", "b", "s", "o", "l", "u", "t", "e", "l", "y">>,
    value |-> NULL],
   [key |-> <<"t", "o", "t", "a", "l", "l", "y">>,
    value |-> NULL],
   [key |-> <<"c", "o", "m", "p", "l", "e", "t", "e", "l", "y">>,
    value |-> NULL],
   [key |-> <<"s", "t", "u", "f", "f">>,
    value |-> <<"items/materials/things">>],
   [key |-> <<"t", "h", "i", "n", "g", "s">>,
    value |-> <<"items/elements/aspects">>],
   [key |-> <<"s", "o", "m", "e", "t", "h", "i", "n", "g">>,
    value |-> <<"[be specific]">>],
   [key |-> <<"g", "o", "o", "d">>,
    value |-> <<"excellent/effective/beneficial">>],
   [key |-> <<"b", "a", "d">>,
    value |-> <<"poor/ineffective/harmful">>],
   [key |-> <<"n", "i", "c", "e">>,
    value |-> <<"pleasant/agreeable/satisfactory">>],
   [key |-> <<"b", "a", "s", "i", "c", "a", "l", "l", "y">>,
    value |-> NULL],
   [key |-> <<"l", "i", "t", "e", "r", "a", "l", "l", "y">>,
    value |-> NULL],
   [key |-> <<"a", "c", "t", "u", "a", "l", "l", "y">>,
    value |-> NULL],
   [key |-> <<"h", "o", "n", "e", "s", "t", "l", "y">>,
    value |-> NULL],
   [key |-> <<"s", "e", "r", "i", "o", "u", "s", "l", "y">>,
    value |-> NULL],
   [key |-> <<"j", "u", "s", "t">>,
    value |-> NULL],
   [key |-> <<"o", "n", "l", "y">>,
    value |-> NULL],
   [key |-> <<"m", "e", "r", "e", "l", "y">>,
    value |-> NULL],
   [key |-> <<"s", "i", "m", "p", "l", "y">>,
    value |-> NULL],
   [key |-> <<"r", "a", "t", "h", "e", "r">>,
    value |-> <<"somewhat/moderately">>],
   [key |-> <<"s", "o", "m", "e", "w", "h", "a", "t">>,
    value |-> NULL],
   [key |-> <<"f", "a", "i", "r", "l", "y">>,
    value |-> NULL],
   [key |-> <<"p", "r", "e", "t", "t", "y">>,
    value |-> NULL],
   [key |-> <<"k", "i", "n", "d", " ", "o", "f">>,
    value |-> NULL],
   [key |-> <<"s", "o", "r", "t", " ", "o", "f">>,
    value |-> NULL],
   [key |-> <<"a", " ", "l", "o", "t">>,
    value |-> <<"many/much/frequently">>],
   [key |-> <<"a", " ", "b", "i", "t">>,
    value |-> <<"slightly/somewhat">>],
   [key |-> <<"i", "n", " ", "f", "a", "c", "t">>,
    value |-> NULL],
   [key |-> <<"y", "o", "u", " ", "k", "n", "o", "w">>,
    value |-> NULL],
   [key |-> <<"i", " ", "m", "e", "a", "n">>,
    value |-> NULL],
   [key |-> <<"i", " ", "t", "h", "i", "n", "k">>,
    value |-> NULL],
   [key |-> <<"i", " ", "f", "e", "e", "l">>,
    value |-> NULL],
   [key |-> <<"i", " ", "b", "e", "l", "i", "e", "v", "e">>,
    value |-> NULL],
   [key |-> <<"i", "n", " ", "m", "y", " ", "o", "p", "i", "n", "i", "o", "n">>,
    value |-> NULL],
   [key |-> <<"t", "o", " ", "b", "e", " ", "h", "o", "n", "e", "s", "t">>,
    value |-> NULL],
   [key |-> <<"f", "o", "r", " ", "t", "h", "e", " ", "m", "o", "s", "t", " ", "p", "a", "r", "t">>,
    value |-> <<"mostly/generally">>]
  >>

\* Object.entries(WEAK_WORDS), in insertion order
WEAK_WORDS ==
  <<[category |-> "intensifiers", words |-> intensifiersWords],
    [category |-> "vague", words |-> vagueWords],
    [category |-> "fillers", words |-> fillersWords],
    [category |-> "hedges", words |-> hedgesWords],
    [category |-> "phrases", words |-> phrases]>>

(***************************************************************************)
(* Weak-word detection (weakWordDetector.js)                               *)
(***************************************************************************)
\* \p{L} is available in the runtime (textProcessing.js, hasUnicodeSupport)
hasUnicodeSupport == TRUE

\* \w
IsWordChar(c) == c \in Letters \cup Digits \cup {"_"}

\* \b at position i (0-based): a \w character on exactly one side
WordBreakAt(t, i) == IsWordChar(CharAt(t, i - 1)) # IsWordChar(CharAt(t, i))

\* Array.isArray(words): an entry whose value is not a list keeps it in .value
IsArray(e) == "words" \in DOMAIN e

IsWordCategory(e) == e.category # "phrases" /\ IsArray(e) /\ Len(e.words) > 0

\* WEAK_WORDS.phrases of a rule set
PhrasesOf(rules) ==
  rules[CHOOSE k \in 1..Len(rules) : rules[k].category = "phrases"].words

\* the entries of WEAK_WORDS.phrases that are strings, not RegExp objects
StringsOf(rules) ==
  LET e == rules[CHOOSE k \in 1..Len(rules) : rules[k].category = "phrases"]
  IN  IF "strings" \in DOMAIN e THEN e.strings ELSE <<>>

\* compiles the rule set as it is when the call is made
compileWeakWordPatterns ==
  LET entries == SelectSeq(ruleSet, IsWordCategory)
      phrasesNow == PhrasesOf(ruleSet)
      wordPatterns ==
        [k \in 1..Len(entries) |->
           [category |-> entries[k].category,
            kind |-> IF hasUnicodeSupport THEN "lookaround" ELSE "wordbreak",
            parts |-> [j \in 1..Len(entries[k].words) |->
                         PatternAtoms(escapeRegExp(entries[k].words[j]))]]]
      phrasePatterns ==
        [k \in 1..Len(phrasesNow) |->
           [category |-> "phrases",
            kind |-> "phrase",
            parts |-> [j \in 1..Len(phrasesNow[k]) |->
                         PatternAtoms(phrasesNow[k][j])]]]
      \* pushed as they are, whatever they are
      stringPatterns ==
        [k \in 1..Len(StringsOf(ruleSet)) |->
           [category |-> "phrases", kind |-> "string", parts |-> <<>>]]
  IN  wordPatterns \o phrasePatterns \o stringPatterns

\* a test that asks for a compilation whatever the cache holds
CompilesAlways(cached) == TRUE

\* if (!weakWordPatterns): null is falsy, an array (even empty) is not
Compiles(cached) == cached = NULL

\* getWeakWordPatterns(): the cached matcher, compiled when there is none
getWeakWordPatterns(cached) ==
  IF Compiles(cached) THEN compileWeakWordPatterns ELSE cached

RECURSIVE PhraseEnd(_, _, _, _)
\* where a match of words k.. of a phrase pattern, tried at pos, ends: word,
\* \s+, word, ..., \b; -1 when there is none
PhraseEnd(t, parts, k, pos) ==
  IF ~MatchesAt(t, parts[k], pos) THEN -1
  ELSE LET e == pos + Len(parts[k])
           next == SkipWhitespace(t, e + 1) - 1
       IN  IF k = Len(parts) THEN (IF WordBreakAt(t, e) THEN e ELSE -1)
           ELSE IF next = e THEN -1
           ELSE PhraseEnd(t, parts, k + 1, next)

\* where the match of pattern pat that starts at position i ends; -1 when
\* none starts there
PatternEndAt(t, pat, i) ==
  IF pat.kind = "phrase"
  THEN IF WordBreakAt(t, i) THEN PhraseEnd(t, pat.parts, 1, i) ELSE -1
  ELSE LET opens == IF pat.kind = "lookaround"
                    THEN i = 0 \/ WORD_BOUNDARY(CharAt(t, i - 1))
                    ELSE WordBreakAt(t, i)
           closes(e) == IF pat.kind = "lookaround"
                        THEN e = Len(t) \/ WORD_BOUNDARY(CharAt(t, e))
                        ELSE WordBreakAt(t, e)
           good == {j \in 1..Len(pat.parts) :
                      /\ MatchesAt(t, pat.parts[j], i)
                      /\ closes(i + Len(pat.parts[j]))}
       IN  IF opens /\ good # {} THEN i + Len(pat.parts[Min(good)]) ELSE -1

\* pattern.exec(text) from lastIndex: the leftmost match
ExecPattern(t, pat, lastIndex) ==
  LET starts == {i \in lastIndex..Len(t) : PatternEndAt(t, pat, i) # -1}
  IN  IF starts = {} THEN NoMatch
      ELSE [found |-> TRUE, index |-> Min(starts),
            end |-> PatternEndAt(t, pat, Min(starts))]

\* suggestions[word.toLowerCase()] || null
getSuggestion(word, category) ==
  LET hits == {k \in 1..Len(suggestions) : suggestions[k].key = toLowerCase(word)}
  IN  IF hits = {} THEN NULL ELSE suggestions[Min(hits)].value

RECURSIVE MatchesOfPattern(_, _, _)
\* while ((match = pattern.exec(text)) !== null) matches.push({...})
MatchesOfPattern(t, pat, lastIndex) ==
  LET m == ExecPattern(t, pat, lastIndex)
      actualWord == SubSeq(t, m.index + 1, m.end)
  IN  IF ~m.found THEN <<>>
      ELSE <<[word |-> actualWord,
              start |-> m.index,
              end |-> m.index + Len(actualWord),
              category |-> pat.category,
              suggestion |-> getSuggestion(actualWord, pat.category)]>>
           \o MatchesOfPattern(t, pat, m.end)

RECURSIVE MatchesOfPatterns(_, _, _)
\* for (const { pattern, category } of patterns) { pattern.lastIndex = 0; ... }
MatchesOfPatterns(t, patterns, k) ==
  IF k > Len(patterns) THEN <<>>
  ELSE MatchesOfPattern(t, patterns[k], 0) \o MatchesOfPatterns(t, patterns, k + 1)

\* an insertion that puts a match before the matches of the same start
InsertBeforeEqual(sorted, m) ==
  LET before == SelectSeq(sorted, LAMBDA x : x.start < m.start)
      after == SelectSeq(sorted, LAMBDA x : x.start >= m.start)
  IN  before \o <<m>> \o after

\* one step of a stable sort by start: m goes after every match that
\* does not start later
InsertByStart(sorted, m) ==
  LET before == SelectSeq(sorted, LAMBDA x : x.start <= m.start)
      after == SelectSeq(sorted, LAMBDA x : x.start > m.start)
  IN  before \o <<m>> \o after

RECURSIVE SortFrom(_, _, _)
SortFrom(ms, k, sorted) ==
  IF k > Len(ms) THEN sorted ELSE SortFrom(ms, k + 1, InsertByStart(sorted, ms[k]))

\* matches.sort((a, b) => a.start - b.start): Array.prototype.sort is stable
sortByStart(ms) == SortFrom(ms, 1, <<>>)

detectWeakWords(t, patterns) == sortByStart(MatchesOfPatterns(t, patterns, 1))


\* one step of a stable sort by descending start
InsertByStartDescending(sorted, m) ==
  LET before == SelectSeq(sorted, LAMBDA x : x.start >= m.start)
      after == SelectSeq(sorted, LAMBDA x : x.start < m.start)
  IN  before \o <<m>> \o after

RECURSIVE SortDescendingFrom(_, _, _)
SortDescendingFrom(ms, k, sorted) ==
  IF k > Len(ms) THEN sorted
  ELSE SortDescendingFrom(ms, k + 1, InsertByStartDescending(sorted, ms[k]))

\* matches.sort((a, b) => b.start - a.start)
sortByStartDescending(ms) == SortDescendingFrom(ms, 1, <<>>)

\* the default markers, the characters U+00AB and U+00BB
LAQUO == "<<"
RAQUO == ">>"

RECURSIVE WrapFrom(_, _, _, _, _)
\* for (const match of matches) result = result.slice(0, match.start) + ...
WrapFrom(result, ms, k, L, R) ==
  IF k > Len(ms) THEN result
  ELSE WrapFrom(slice(result, 0, ms[k].start) \o L
                \o slice(result, ms[k].start, ms[k].end) \o R
                \o sliceFrom(result, ms[k].end),
                ms, k + 1, L, R)

flagWeakWords(t, patterns, L, R) ==
  WrapFrom(t, sortByStartDescending(detectWeakWords(t, patterns)), 1, L, R)

(***************************************************************************)
(* JavaScript numbers, as exact fractions num / den with den > 0           *)
(***************************************************************************)
RECURSIVE GCD(_, _)
GCD(a, b) == IF b = 0 THEN a ELSE GCD(b, a % b)

Abs(n) == IF n < 0 THEN 0 - n ELSE n

\* the number n / d, in lowest terms
Rat(n, d) ==
  LET g == GCD(Abs(n), Abs(d))
      sign == IF d < 0 THEN -1 ELSE 1
  IN  [num |-> sign * (n \div g), den |-> sign * (d \div g)]

Num(n) == Rat(n, 1)
RatAdd(x, y) == Rat(x.num * y.den + y.num * x.den, x.den * y.den)
RatSub(x, y) == Rat(x.num * y.den - y.num * x.den, x.den * y.den)
RatMul(x, y) == Rat(x.num * y.num, x.den * y.den)
RatDiv(x, y) == Rat(x.num * y.den, x.den * y.num)
RatLeq(x, y) == x.num * y.den <= y.num * x.den
RatLess(x, y) == x.num * y.den < y.num * x.den
\* Math.max(x, y), Math.min(x, y)
MathMax(x, y) == IF RatLeq(x, y) THEN y ELSE x
MathMin(x, y) == IF RatLeq(x, y) THEN x ELSE y
\* Math.round(x): the integer nearest to x, halves rounded up
MathRound(x) == (2 * x.num + x.den) \div (2 * x.den)

\* const x = v; F(x): the value v is computed once and then used by F
Once(F(_), v) == CHOOSE r \in {F(x) : x \in {v}} : TRUE

\* the outcome of a call: the value it returns, or the TypeError it throws
Returns(v) == [thrown |-> FALSE, value |-> v]
TypeError == [thrown |-> TRUE, value |-> "TypeError"]

\* String(value), as RegExp.prototype.exec applies it to its argument
StringOf(v) == IF v = NULL THEN <<"n", "u", "l", "l">> ELSE v

(***************************************************************************)
(* Word counts (textProcessing.js) and weak-word statistics                *)
(* (weakWordDetector.js)                                                   *)
(***************************************************************************)
RECURSIVE trimStart(_)
trimStart(s) ==
  IF s # <<>> /\ Head(s) \in Whitespace THEN trimStart(Tail(s)) ELSE s

RECURSIVE trimEnd(_)
trimEnd(s) ==
  IF s # <<>> /\ s[Len(s)] \in Whitespace
  THEN trimEnd(SubSeq(s, 1, Len(s) - 1)) ELSE s

\* s.trim()
trim(s) == trimEnd(trimStart(s))

\* words.filter(Boolean): the empty string is falsy
filterBoolean(words) == SelectSeq(words, LAMBDA w : w # <<>>)

\* the pieces of the untrimmed text, the empty ones among them
WhitespaceWordsUnfiltered(t) == splitWhitespace(t)

\* text.trim().split(/\s+/).filter(Boolean)
WhitespaceWords(t) == filterBoolean(splitWhitespace(trim(t)))

\* countWords(text): !text holds for null and for the empty string
countWords(t) ==
  IF t = NULL \/ t = <<>> \/ trim(t) = <<>> THEN 0
  ELSE Len(WhitespaceWords(t))

\* countWeakWordsByCategory(text): counts[match.category] = (... || 0) + 1
countWeakWordsByCategory(t, patterns) ==
  LET Count(ms) ==
        [c \in {ms[k].category : k \in 1..Len(ms)} |->
           Cardinality({k \in 1..Len(ms) : ms[k].category = c})]
  IN  Once(Count, detectWeakWords(StringOf(t), patterns))

\* calculateWeakWordDensity(text): detectWeakWords runs first, then
\* text.trim() throws on null
calculateWeakWordDensity(t, patterns) ==
  LET Density(matches) ==
        IF t = NULL THEN TypeError
        ELSE LET words == WhitespaceWords(t)
             IN  IF Len(words) = 0 THEN Returns(Num(0))
                 ELSE Returns(RatMul(Rat(Len(matches), Len(words)), Num(100)))
  IN  Once(Density, detectWeakWords(StringOf(t), patterns))

\* a range whose lower end is 10
ClampScoreFromTen(x) == MathMax(Num(10), MathMin(Num(100), x))

\* Math.max(0, Math.min(100, x))
ClampScore(x) == MathMax(Num(0), MathMin(Num(100), x))

\* a penalty of one point for each vague word
VaguePenaltyOnePoint(score, vagueCount) ==
  IF vagueCount > 0 THEN RatSub(score, Num(vagueCount)) ELSE score

\* if (vagueCount > 0) score -= vagueCount * 2
VaguePenalty(score, vagueCount) ==
  IF vagueCount > 0 THEN RatSub(score, Num(vagueCount * 2)) ELSE score

\* a grading with >= 90 read as > 90
GradeOfStrict(score) ==
  IF RatLess(Num(90), score) THEN "Excellent"
  ELSE IF RatLeq(Num(75), score) THEN "Good"
  ELSE IF RatLeq(Num(60), score) THEN "Fair"
  ELSE IF RatLeq(Num(40), score) THEN "Weak"
  ELSE "Very Weak"

\* if (score >= 90) grade = 'Excellent'; else if ...
GradeOf(score) ==
  IF RatLeq(Num(90), score) THEN "Excellent"
  ELSE IF RatLeq(Num(75), score) THEN "Good"
  ELSE IF RatLeq(Num(60), score) THEN "Fair"
  ELSE IF RatLeq(Num(40), score) THEN "Weak"
  ELSE "Very Weak"

RECURSIVE SumOver(_, _)
\* Object.values(counts).reduce((a, b) => a + b, 0)
SumOver(counts, keys) ==
  IF keys = {} THEN 0
  ELSE LET k == CHOOSE x \in keys : TRUE
       IN  counts[k] + SumOver(counts, keys \ {k})

getWritingStrength(t, patterns) ==
  LET Scored(density, counts) ==
        LET score0 == ClampScore(RatSub(Num(100), RatMul(density, Num(2))))
            vagueCount == IF "vague" \in DOMAIN counts THEN counts["vague"] ELSE 0
            score == ClampScore(VaguePenalty(score0, vagueCount))
        IN  Returns([score |-> MathRound(score),
                     grade |-> GradeOf(score),
                     density |-> Rat(MathRound(RatMul(density, Num(10))), 10),
                     categoryCounts |-> counts,
                     totalWeakWords |-> SumOver(counts, DOMAIN counts)])
      Counted(called) ==
        IF called.thrown THEN TypeError
        ELSE LET WithCounts(counts) == Scored(called.value, counts)
             IN  Once(WithCounts, countWeakWordsByCategory(t, patterns))
  IN  Once(Counted, calculateWeakWordDensity(t, patterns))

(***************************************************************************)
(* Topic extraction (utils/topicExtraction.js, src/unnamed/part_002)       *)
(***************************************************************************)
\* new Set([...]) (config/settings.js)
STOPWORDS ==
  {<<"t", "h", "e">>, <<"a">>, <<"a", "n">>, <<"a", "n", "d">>, <<"o", "r">>,
   <<"b", "u", "t">>, <<"n", "o", "r">>, <<"y", "e", "t">>, <<"s", "o">>,
   <<"f", "o", "r">>, <<"i", "n">>, <<"o", "n">>, <<"a", "t">>, <<"t", "o">>,
   <<"f", "r", "o", "m">>, <<"w", "i", "t", "h">>, <<"b", "y">>,
   <<"o", "f">>, <<"a", "b", "o", "u", "t">>, <<"i", "n", "t", "o">>,
   <<"t", "h", "r", "o", "u", "g", "h">>, <<"d", "u", "r", "i", "n", "g">>,
   <<"b", "e", "f", "o", "r", "e">>, <<"a", "f", "t", "e", "r">>,
   <<"a", "b", "o", "v", "e">>, <<"b", "e", "l", "o", "w">>,
   <<"b", "e", "t", "w", "e", "e", "n">>, <<"u", "n", "d", "e", "r">>,
   <<"o", "v", "e", "r">>, <<"a", "g", "a", "i", "n", "s", "t">>,
   <<"w", "i", "t", "h", "i", "n">>, <<"w", "i", "t", "h", "o", "u", "t">>,
   <<"i">>, <<"m", "e">>, <<"m", "y">>, <<"m", "i", "n", "e">>,
   <<"m", "y", "s", "e", "l", "f">>, <<"y", "o", "u">>,
   <<"y", "o", "u", "r">>, <<"y", "o", "u", "r", "s">>,
   <<"y", "o", "u", "r", "s", "e", "l", "f">>, <<"h", "e">>,
   <<"h", "i", "m">>, <<"h", "i", "s">>,
   <<"h", "i", "m", "s", "e", "l", "f">>, <<"s", "h", "e">>,
   <<"h", "e", "r">>, <<"h", "e", "r", "s">>,
   <<"h", "e", "r", "s", "e", "l", "f">>, <<"i", "t">>, <<"i", "t", "s">>,
   <<"i", "t", "s", "e", "l", "f">>, <<"w", "e">>, <<"u", "s">>,
   <<"o", "u", "r">>, <<"o", "u", "r", "s">>,
   <<"o", "u", "r", "s", "e", "l", "v", "e", "s">>, <<"t", "h", "e", "y">>,
   <<"t", "h", "e", "m">>, <<"t", "h", "e", "i", "r">>,
   <<"t", "h", "e", "i", "r", "s">>,
   <<"t", "h", "e", "m", "s", "e", "l", "v", "e", "s">>,
   <<"t", "h", "i", "s">>, <<"t", "h", "a", "t">>,
   <<"t", "h", "e", "s", "e">>, <<"t", "h", "o", "s", "e">>, <<"i", "s">>,
   <<"a", "m">>, <<"a", "r", "e">>, <<"w", "a", "s">>,
   <<"w", "e", "r", "e">>, <<"b", "e">>, <<"b", "e", "e", "n">>,
   <<"b", "e", "i", "n", "g">>, <<"h", "a", "v", "e">>, <<"h", "a", "s">>,
   <<"h", "a", "d">>, <<"h", "a", "v", "i", "n", "g">>, <<"d", "o">>,
   <<"d", "o", "e", "s">>, <<"d", "i", "d">>, <<"d", "o", "i", "n", "g">>,
   <<"d", "o", "n", "e">>, <<"w", "i", "l", "l">>,
   <<"w", "o", "u", "l", "d">>, <<"s", "h", "a", "l", "l">>,
   <<"s", "h", "o", "u", "l", "d">>, <<"m", "a", "y">>,
   <<"m", "i", "g", "h", "t">>, <<"c", "a", "n">>,
   <<"c", "o", "u", "l", "d">>, <<"m", "u", "s", "t">>, <<"n", "o", "t">>,
   <<"n", "o">>, <<"y", "e", "s">>, <<"t", "h", "a", "n">>,
   <<"t", "h", "e", "n">>, <<"s", "u", "c", "h">>, <<"m", "o", "r", "e">>,
   <<"m", "o", "s", "t">>, <<"l", "e", "s", "s">>,
   <<"l", "e", "a", "s", "t">>, <<"v", "e", "r", "y">>, <<"t", "o", "o">>,
   <<"e", "a", "c", "h">>, <<"e", "v", "e", "r", "y">>, <<"a", "l", "l">>,
   <<"b", "o", "t", "h">>, <<"f", "e", "w">>, <<"s", "o", "m", "e">>,
   <<"a", "n", "y">>, <<"o", "t", "h", "e", "r">>,
   <<"a", "n", "o", "t", "h", "e", "r">>, <<"s", "a", "m", "e">>,
   <<"d", "i", "f", "f", "e", "r", "e", "n", "t">>,
   <<"d", "o", "n", "'", "t">>, <<"d", "o", "e", "s", "n", "'", "t">>,
   <<"d", "i", "d", "n", "'", "t">>, <<"w", "o", "n", "'", "t">>,
   <<"w", "o", "u", "l", "d", "n", "'", "t">>, <<"c", "a", "n", "'", "t">>,
   <<"c", "o", "u", "l", "d", "n", "'", "t">>,
   <<"s", "h", "o", "u", "l", "d", "n", "'", "t">>,
   <<"m", "u", "s", "t", "n", "'", "t">>, <<"i", "s", "n", "'", "t">>,
   <<"a", "r", "e", "n", "'", "t">>, <<"w", "a", "s", "n", "'", "t">>,
   <<"w", "e", "r", "e", "n", "'", "t">>, <<"h", "a", "s", "n", "'", "t">>,
   <<"h", "a", "v", "e", "n", "'", "t">>, <<"h", "a", "d", "n", "'", "t">>,
   <<"w", "e", "l", "l">>, <<"n", "o", "w">>, <<"j", "u", "s", "t">>,
   <<"l", "i", "k", "e">>, <<"a", "l", "s", "o">>,
   <<"s", "t", "i", "l", "l">>, <<"e", "v", "e", "n">>,
   <<"a", "g", "a", "i", "n">>, <<"f", "u", "r", "t", "h", "e", "r">>,
   <<"a", "l", "r", "e", "a", "d", "y">>, <<"o", "f", "t", "e", "n">>,
   <<"a", "l", "w", "a", "y", "s">>, <<"n", "e", "v", "e", "r">>}

\* A Map is the sequence of its entries [key, value] in insertion order.
MapHas(m, k) == \E i \in 1..Len(m) : m[i].key = k
MapGet(m, k) == m[CHOOSE i \in 1..Len(m) : m[i].key = k].value
\* m.set(k, v): an existing key keeps its place
MapSet(m, k, v) ==
  IF MapHas(m, k)
  THEN [i \in 1..Len(m) |-> IF m[i].key = k THEN [key |-> k, value |-> v] ELSE m[i]]
  ELSE Append(m, [key |-> k, value |-> v])
MapDelete(m, k) == SelectSeq(m, LAMBDA e : e.key # k)
MapKeys(m) == [i \in 1..Len(m) |-> m[i].key]

RECURSIVE MatchKeywordsFrom(_, _, _, _)
MatchKeywordsFrom(s, i, cur, acc) ==
  LET closed == IF cur = <<>> THEN acc ELSE Append(acc, cur)
  IN  IF i > Len(s) THEN closed
      ELSE IF s[i] \in WORD_CLASS
           THEN MatchKeywordsFrom(s, i + 1, Append(cur, s[i]), acc)
           ELSE MatchKeywordsFrom(s, i + 1, <<>>, closed)

\* s.match(KEYWORD_RE) || []: the maximal runs of word-class characters
matchKeywords(s) == MatchKeywordsFrom(s, 1, <<>>, <<>>)

RECURSIVE CountTerms(_, _, _, _)
\* for (const word of words) { if (STOPWORDS.has(word) || word.length <
\* minLength) continue; terms.set(word, (terms.get(word) || 0) + 1); }
CountTerms(words, k, minLength, terms) ==
  IF k > Len(words) THEN terms
  ELSE LET w == words[k]
       IN  IF w \in STOPWORDS \/ Len(w) < minLength
           THEN CountTerms(words, k + 1, minLength, terms)
           ELSE CountTerms(words, k + 1, minLength,
                           MapSet(terms, w,
                                  (IF MapHas(terms, w) THEN MapGet(terms, w) ELSE 0) + 1))

RECURSIVE SumValues(_)
SumValues(m) == IF m = <<>> THEN 0 ELSE Head(m).value + SumValues(Tail(m))

\* calculateTermFrequency(text, minLength): text.toLowerCase() throws on null
calculateTermFrequency(t, minLength) ==
  IF t = NULL THEN TypeError
  ELSE LET terms == CountTerms(matchKeywords(toLowerCase(t)), 1, minLength, <<>>)
           totalValidTerms == SumValues(terms)
       IN  Returns([i \in 1..Len(terms) |->
                      [key |-> terms[i].key,
                       value |-> Rat(terms[i].value, totalValidTerms)]])

\* one step of a sort that puts an entry ahead of those of equal score
InsertAheadOfEqual(sorted, e) ==
  LET before == SelectSeq(sorted, LAMBDA x : x.score > e.score)
      after == SelectSeq(sorted, LAMBDA x : x.score <= e.score)
  IN  before \o <<e>> \o after


\* one step of a stable sort by descending integer score
InsertByScore(sorted, e) ==
  LET before == SelectSeq(sorted, LAMBDA x : x.score >= e.score)
      after == SelectSeq(sorted, LAMBDA x : x.score < e.score)
  IN  before \o <<e>> \o after

RECURSIVE SortByScoreFrom(_, _, _)
SortByScoreFrom(es, k, sorted) ==
  IF k > Len(es) THEN sorted
  ELSE SortByScoreFrom(es, k + 1, InsertByScore(sorted, es[k]))

\* entries.sort((a, b) => b.score - a.score)
sortByScore(es) == SortByScoreFrom(es, 1, <<>>)

\* extractKeywordsByFrequency(text, n, minLength)
extractKeywordsByFrequency(t, n, minLength) ==
  IF t = NULL THEN TypeError
  ELSE LET counts == CountTerms(matchKeywords(toLowerCase(t)), 1, minLength, <<>>)
           entries == [i \in 1..Len(counts) |->
                         [term |-> counts[i].key, score |-> counts[i].value]]
       IN  Returns(slice(sortByScore(entries), 0, n))

(* A TF-IDF score is tf * Math.log(ratio); it is kept as the pair of the    *)
(* fractions tf and ratio, ratio = 1 when the IDF is 0.                     *)
RECURSIVE Power(_, _)
Power(b, e) == IF e = 0 THEN 1 ELSE b * Power(b, e - 1)

\* -1, 0, 1: the sign of tf * log(ratio), tf >= 0
LogSign(x) ==
  IF x.tf.num = 0 \/ x.ratio.num = x.ratio.den THEN 0
  ELSE IF x.ratio.num > x.ratio.den THEN 1 ELSE -1

\* |x| < |y| for two scores of the same sign 1: x.ratio ^ x.tf against
\* y.ratio ^ y.tf, the exponents brought to integers
LogLessPositive(x, y) ==
  LET ex0 == x.tf.num * y.tf.den
      ey0 == y.tf.num * x.tf.den
      g == GCD(ex0, ey0)
      ex == ex0 \div g
      ey == ey0 \div g
  IN  Power(x.ratio.num, ex) * Power(y.ratio.den, ey)
        < Power(y.ratio.num, ey) * Power(x.ratio.den, ex)

Reciprocal(x) == [tf |-> x.tf, ratio |-> Rat(x.ratio.den, x.ratio.num)]

\* x < y as numbers
LogLess(x, y) ==
  IF LogSign(x) # LogSign(y) THEN LogSign(x) < LogSign(y)
  ELSE IF LogSign(x) = 0 THEN FALSE
  ELSE IF LogSign(x) = 1 THEN LogLessPositive(x, y)
  ELSE LogLessPositive(Reciprocal(y), Reciprocal(x))

\* calculateIDF(term): the ratio whose logarithm is returned, 1 for IDF 0
calculateIDF(term, df, total) ==
  LET docsWithTerm == IF MapHas(df, term) THEN MapGet(df, term) ELSE 0
  IN  IF docsWithTerm = 0 \/ total = 0 THEN Num(1)
      ELSE Rat(total + 1, docsWithTerm + 1)

\* calculateTFIDF(text, minLength)
calculateTFIDF(t, minLength, df, total) ==
  LET called == calculateTermFrequency(t, minLength)
      tf == called.value
  IN  IF called.thrown THEN TypeError
      ELSE Returns([i \in 1..Len(tf) |->
                      [key |-> tf[i].key,
                       value |-> [tf |-> tf[i].value,
                                  ratio |-> calculateIDF(tf[i].key, df, total)]]])

RECURSIVE SetAllToOne(_, _, _)
\* documentFrequency.set(term, 1) for each term, whatever its count was
SetAllToOne(df, terms, k) ==
  IF k > Len(terms) THEN df
  ELSE SetAllToOne(MapSet(df, terms[k], 1), terms, k + 1)

RECURSIVE IncrementAll(_, _, _)
\* for (const term of uniqueTerms) documentFrequency.set(term, (... || 0) + 1)
IncrementAll(df, terms, k) ==
  IF k > Len(terms) THEN df
  ELSE IncrementAll(MapSet(df, terms[k],
                           (IF MapHas(df, terms[k]) THEN MapGet(df, terms[k]) ELSE 0) + 1),
                    terms, k + 1)

\* one step of a stable sort of Map entries by descending value
InsertByValue(sorted, e) ==
  LET before == SelectSeq(sorted, LAMBDA x : x.value >= e.value)
      after == SelectSeq(sorted, LAMBDA x : x.value < e.value)
  IN  before \o <<e>> \o after

\* the entries left in insertion order
InInsertionOrder(es, k, sorted) == es


RECURSIVE SortByValueFrom(_, _, _)
\* (Len(sorted) < 0 never holds: the test has the entries sorted so far
\* evaluated at each step, not all of them at the end)
SortByValueFrom(es, k, sorted) ==
  IF k > Len(es) \/ Len(sorted) < 0 THEN sorted
  ELSE SortByValueFrom(es, k + 1, InsertByValue(sorted, es[k]))

\* updateDocumentFrequency(text) without totalDocuments++
updateDocumentFrequencyUncounted(t, df, total) ==
  LET called == calculateTermFrequency(t, 3)
  IN  IF called.thrown THEN [thrown |-> TRUE, df |-> df, total |-> total]
      ELSE [thrown |-> FALSE, df |-> IncrementAll(df, MapKeys(called.value), 1),
            total |-> total]


\* updateDocumentFrequency(text): the new table and document count; the
\* table is cut to the MAX_CACHE_SIZE * 5 most common terms when it has
\* grown beyond MAX_CACHE_SIZE * 10
updateDocumentFrequency(t, df, total) ==
  LET called == calculateTermFrequency(t, 3)
  IN  IF called.thrown THEN [thrown |-> TRUE, df |-> df, total |-> total]
      ELSE LET counted == IncrementAll(df, MapKeys(called.value), 1)
               kept == IF Len(counted) > MAX_CACHE_SIZE * 10
                       THEN slice(SortByValueFrom(counted, 1, <<>>), 0, MAX_CACHE_SIZE * 5)
                       ELSE counted
           IN  [thrown |-> FALSE, df |-> kept, total |-> total + 1]

\* one step of a stable sort by descending TF-IDF score
InsertByLogScore(sorted, e) ==
  LET before == SelectSeq(sorted, LAMBDA x : ~LogLess(x.score, e.score))
      after == SelectSeq(sorted, LAMBDA x : LogLess(x.score, e.score))
  IN  before \o <<e>> \o after

RECURSIVE SortByLogScoreFrom(_, _, _)
SortByLogScoreFrom(es, k, sorted) ==
  IF k > Len(es) THEN sorted
  ELSE SortByLogScoreFrom(es, k + 1, InsertByLogScore(sorted, es[k]))

\* extractKeywordsByTFIDF counting the text whenever updateStats is set
extractKeywordsByTFIDFUncapped(t, n, minLength, updateStats, df, total) ==
  LET upd == IF updateStats
             THEN updateDocumentFrequency(t, df, total)
             ELSE [thrown |-> FALSE, df |-> df, total |-> total]
      called == calculateTFIDF(t, minLength, upd.df, upd.total)
      tfidf == called.value
  IN  [keywords |->
         Returns(slice(SortByLogScoreFrom(
                         [i \in 1..Len(tfidf) |->
                            [term |-> tfidf[i].key, score |-> tfidf[i].value]],
                         1, <<>>), 0, n)),
       df |-> upd.df, total |-> upd.total]


\* extractKeywordsByTFIDF(text, n, minLength, updateStats): the keywords and
\* the corpus statistics the call leaves behind
extractKeywordsByTFIDF(t, n, minLength, updateStats, df, total) ==
  LET upd == IF updateStats /\ total < MAX_CACHE_SIZE
             THEN updateDocumentFrequency(t, df, total)
             ELSE [thrown |-> FALSE, df |-> df, total |-> total]
      called == calculateTFIDF(t, minLength, upd.df, upd.total)
      tfidf == called.value
  IN  IF upd.thrown \/ called.thrown
      THEN [keywords |-> TypeError, df |-> upd.df, total |-> upd.total]
      ELSE [keywords |->
              Returns(slice(SortByLogScoreFrom(
                              [i \in 1..Len(tfidf) |->
                                 [term |-> tfidf[i].key, score |-> tfidf[i].value]],
                              1, <<>>), 0, n)),
            df |-> upd.df, total |-> upd.total]

\* the defaults of extractKeywords' options
DefaultOptions ==
  [count |-> 6, minLength |-> 3, algorithm |-> "frequency", updateStats |-> TRUE]


\* extractKeywords without the test of the document count
extractKeywordsOnAnyCorpus(t, options, df, total) ==
  IF options.algorithm = "tfidf"
  THEN extractKeywordsByTFIDF(t, options.count, options.minLength,
                              options.updateStats, df, total)
  ELSE [keywords |-> extractKeywordsByFrequency(t, options.count, options.minLength),
        df |-> df, total |-> total]


\* extractKeywords(text, options)
extractKeywords(t, options, df, total) ==
  IF options.algorithm = "tfidf" /\ total > 0
  THEN extractKeywordsByTFIDF(t, options.count, options.minLength,
                              options.updateStats, df, total)
  ELSE [keywords |-> extractKeywordsByFrequency(t, options.count, options.minLength),
        df |-> df, total |-> total]

\* getTopKeywords(text, n, algorithm): keywords.map(k => k.term)
getTopKeywords(t, n, algorithm, df, total) ==
  LET Terms(r) ==
        [r EXCEPT !.keywords =
           IF r.keywords.thrown THEN TypeError
           ELSE Returns([i \in 1..Len(r.keywords.value) |-> r.keywords.value[i].term])]
  IN  Once(Terms, extractKeywords(t, [DefaultOptions EXCEPT !.count = n,
                                                           !.algorithm = algorithm],
                                  df, total))

(***************************************************************************)
(* Part-of-speech heuristics (utils/posDetection.js, src/unnamed/part_001; *)
(* POS_RULES from config/settings.js)                                      *)
(***************************************************************************)
\* new Set([...])
IRREGULAR_VERBS ==
  {<<"b", "e">>, <<"a", "m">>, <<"i", "s">>, <<"a", "r", "e">>,
   <<"w", "a", "s">>, <<"w", "e", "r", "e">>, <<"b", "e", "e", "n">>,
   <<"b", "e", "i", "n", "g">>, <<"h", "a", "v", "e">>, <<"h", "a", "s">>,
   <<"h", "a", "d">>, <<"h", "a", "v", "i", "n", "g">>, <<"d", "o">>,
   <<"d", "o", "e", "s">>, <<"d", "i", "d">>, <<"d", "o", "n", "e">>,
   <<"d", "o", "i", "n", "g">>, <<"g", "o">>, <<"g", "o", "e", "s">>,
   <<"w", "e", "n", "t">>, <<"g", "o", "n", "e">>,
   <<"g", "o", "i", "n", "g">>, <<"g", "e", "t">>, <<"g", "e", "t", "s">>,
   <<"g", "o", "t">>, <<"g", "o", "t", "t", "e", "n">>,
   <<"g", "e", "t", "t", "i", "n", "g">>, <<"m", "a", "k", "e">>,
   <<"m", "a", "k", "e", "s">>, <<"m", "a", "d", "e">>,
   <<"m", "a", "k", "i", "n", "g">>, <<"t", "a", "k", "e">>,
   <<"t", "a", "k", "e", "s">>, <<"t", "o", "o", "k">>,
   <<"t", "a", "k", "e", "n">>, <<"t", "a", "k", "i", "n", "g">>,
   <<"s", "e", "e">>, <<"s", "e", "e", "s">>, <<"s", "a", "w">>,
   <<"s", "e", "e", "n">>, <<"s", "e", "e", "i", "n", "g">>,
   <<"c", "o", "m", "e">>, <<"c", "o", "m", "e", "s">>,
   <<"c", "a", "m", "e">>, <<"c", "o", "m", "i", "n", "g">>,
   <<"k", "n", "o", "w">>, <<"k", "n", "o", "w", "s">>,
   <<"k", "n", "e", "w">>, <<"k", "n", "o", "w", "n">>,
   <<"k", "n", "o", "w", "i", "n", "g">>, <<"t", "h", "i", "n", "k">>,
   <<"t", "h", "i", "n", "k", "s">>, <<"t", "h", "o", "u", "g", "h", "t">>,
   <<"t", "h", "i", "n", "k", "i", "n", "g">>, <<"g", "i", "v", "e">>,
   <<"g", "i", "v", "e", "s">>, <<"g", "a", "v", "e">>,
   <<"g", "i", "v", "e", "n">>, <<"g", "i", "v", "i", "n", "g">>,
   <<"f", "i", "n", "d">>, <<"f", "i", "n", "d", "s">>,
   <<"f", "o", "u", "n", "d">>, <<"f", "i", "n", "d", "i", "n", "g">>,
   <<"t", "e", "l", "l">>, <<"t", "e", "l", "l", "s">>,
   <<"t", "o", "l", "d">>, <<"t", "e", "l", "l", "i", "n", "g">>,
   <<"b", "e", "c", "o", "m", "e">>, <<"b", "e", "c", "o", "m", "e", "s">>,
   <<"b", "e", "c", "a", "m", "e">>,
   <<"b", "e", "c", "o", "m", "i", "n", "g">>, <<"l", "e", "a", "v", "e">>,
   <<"l", "e", "a", "v", "e", "s">>, <<"l", "e", "f", "t">>,
   <<"l", "e", "a", "v", "i", "n", "g">>, <<"f", "e", "e", "l">>,
   <<"f", "e", "e", "l", "s">>, <<"f", "e", "l", "t">>,
   <<"f", "e", "e", "l", "i", "n", "g">>, <<"b", "r", "i", "n", "g">>,
   <<"b", "r", "i", "n", "g", "s">>, <<"b", "r", "o", "u", "g", "h", "t">>,
   <<"b", "r", "i", "n", "g", "i", "n", "g">>, <<"b", "e", "g", "i", "n">>,
   <<"b", "e", "g", "i", "n", "s">>, <<"b", "e", "g", "a", "n">>,
   <<"b", "e", "g", "u", "n">>,
   <<"b", "e", "g", "i", "n", "n", "i", "n", "g">>, <<"k", "e", "e", "p">>,
   <<"k", "e", "e", "p", "s">>, <<"k", "e", "p", "t">>,
   <<"k", "e", "e", "p", "i", "n", "g">>, <<"h", "o", "l", "d">>,
   <<"h", "o", "l", "d", "s">>, <<"h", "e", "l", "d">>,
   <<"h", "o", "l", "d", "i", "n", "g">>, <<"w", "r", "i", "t", "e">>,
   <<"w", "r", "i", "t", "e", "s">>, <<"w", "r", "o", "t", "e">>,
   <<"w", "r", "i", "t", "t", "e", "n">>,
   <<"w", "r", "i", "t", "i", "n", "g">>, <<"s", "t", "a", "n", "d">>,
   <<"s", "t", "a", "n", "d", "s">>, <<"s", "t", "o", "o", "d">>,
   <<"s", "t", "a", "n", "d", "i", "n", "g">>, <<"h", "e", "a", "r">>,
   <<"h", "e", "a", "r", "s">>, <<"h", "e", "a", "r", "d">>,
   <<"h", "e", "a", "r", "i", "n", "g">>, <<"l", "e", "t">>,
   <<"l", "e", "t", "s">>, <<"l", "e", "t", "t", "i", "n", "g">>,
   <<"m", "e", "a", "n">>, <<"m", "e", "a", "n", "s">>,
   <<"m", "e", "a", "n", "t">>, <<"m", "e", "a", "n", "i", "n", "g">>,
   <<"s", "e", "t">>, <<"s", "e", "t", "s">>,
   <<"s", "e", "t", "t", "i", "n", "g">>, <<"m", "e", "e", "t">>,
   <<"m", "e", "e", "t", "s">>, <<"m", "e", "t">>,
   <<"m", "e", "e", "t", "i", "n", "g">>, <<"r", "u", "n">>,
   <<"r", "u", "n", "s">>, <<"r", "a", "n">>,
   <<"r", "u", "n", "n", "i", "n", "g">>, <<"p", "a", "y">>,
   <<"p", "a", "y", "s">>, <<"p", "a", "i", "d">>,
   <<"p", "a", "y", "i", "n", "g">>, <<"s", "i", "t">>,
   <<"s", "i", "t", "s">>, <<"s", "a", "t">>,
   <<"s", "i", "t", "t", "i", "n", "g">>, <<"s", "p", "e", "a", "k">>,
   <<"s", "p", "e", "a", "k", "s">>, <<"s", "p", "o", "k", "e">>,
   <<"s", "p", "o", "k", "e", "n">>,
   <<"s", "p", "e", "a", "k", "i", "n", "g">>, <<"l", "i", "e">>,
   <<"l", "i", "e", "s">>, <<"l", "a", "y">>, <<"l", "a", "i", "n">>,
   <<"l", "y", "i", "n", "g">>, <<"l", "e", "a", "d">>,
   <<"l", "e", "a", "d", "s">>, <<"l", "e", "d">>,
   <<"l", "e", "a", "d", "i", "n", "g">>, <<"r", "e", "a", "d">>,
   <<"r", "e", "a", "d", "s">>, <<"r", "e", "a", "d", "i", "n", "g">>,
   <<"g", "r", "o", "w">>, <<"g", "r", "o", "w", "s">>,
   <<"g", "r", "e", "w">>, <<"g", "r", "o", "w", "n">>,
   <<"g", "r", "o", "w", "i", "n", "g">>, <<"l", "o", "s", "e">>,
   <<"l", "o", "s", "e", "s">>, <<"l", "o", "s", "t">>,
   <<"l", "o", "s", "i", "n", "g">>, <<"f", "a", "l", "l">>,
   <<"f", "a", "l", "l", "s">>, <<"f", "e", "l", "l">>,
   <<"f", "a", "l", "l", "e", "n">>, <<"f", "a", "l", "l", "i", "n", "g">>,
   <<"s", "e", "n", "d">>, <<"s", "e", "n", "d", "s">>,
   <<"s", "e", "n", "t">>, <<"s", "e", "n", "d", "i", "n", "g">>,
   <<"b", "u", "i", "l", "d">>, <<"b", "u", "i", "l", "d", "s">>,
   <<"b", "u", "i", "l", "t">>, <<"b", "u", "i", "l", "d", "i", "n", "g">>,
   <<"u", "n", "d", "e", "r", "s", "t", "a", "n", "d">>,
   <<"u", "n", "d", "e", "r", "s", "t", "a", "n", "d", "s">>,
   <<"u", "n", "d", "e", "r", "s", "t", "o", "o", "d">>,
   <<"u", "n", "d", "e", "r", "s", "t", "a", "n", "d", "i", "n", "g">>,
   <<"d", "r", "a", "w">>, <<"d", "r", "a", "w", "s">>,
   <<"d", "r", "e", "w">>, <<"d", "r", "a", "w", "n">>,
   <<"d", "r", "a", "w", "i", "n", "g">>, <<"b", "r", "e", "a", "k">>,
   <<"b", "r", "e", "a", "k", "s">>, <<"b", "r", "o", "k", "e">>,
   <<"b", "r", "o", "k", "e", "n">>,
   <<"b", "r", "e", "a", "k", "i", "n", "g">>, <<"s", "p", "e", "n", "d">>,
   <<"s", "p", "e", "n", "d", "s">>, <<"s", "p", "e", "n", "t">>,
   <<"s", "p", "e", "n", "d", "i", "n", "g">>, <<"c", "u", "t">>,
   <<"c", "u", "t", "s">>, <<"c", "u", "t", "t", "i", "n", "g">>,
   <<"r", "i", "s", "e">>, <<"r", "i", "s", "e", "s">>,
   <<"r", "o", "s", "e">>, <<"r", "i", "s", "e", "n">>,
   <<"r", "i", "s", "i", "n", "g">>, <<"d", "r", "i", "v", "e">>,
   <<"d", "r", "i", "v", "e", "s">>, <<"d", "r", "o", "v", "e">>,
   <<"d", "r", "i", "v", "e", "n">>, <<"d", "r", "i", "v", "i", "n", "g">>,
   <<"b", "u", "y">>, <<"b", "u", "y", "s">>,
   <<"b", "o", "u", "g", "h", "t">>, <<"b", "u", "y", "i", "n", "g">>,
   <<"w", "e", "a", "r">>, <<"w", "e", "a", "r", "s">>,
   <<"w", "o", "r", "e">>, <<"w", "o", "r", "n">>,
   <<"w", "e", "a", "r", "i", "n", "g">>, <<"c", "h", "o", "o", "s", "e">>,
   <<"c", "h", "o", "o", "s", "e", "s">>, <<"c", "h", "o", "s", "e">>,
   <<"c", "h", "o", "s", "e", "n">>,
   <<"c", "h", "o", "o", "s", "i", "n", "g">>, <<"s", "e", "e", "k">>,
   <<"s", "e", "e", "k", "s">>, <<"s", "o", "u", "g", "h", "t">>,
   <<"s", "e", "e", "k", "i", "n", "g">>, <<"t", "h", "r", "o", "w">>,
   <<"t", "h", "r", "o", "w", "s">>, <<"t", "h", "r", "e", "w">>,
   <<"t", "h", "r", "o", "w", "n">>,
   <<"t", "h", "r", "o", "w", "i", "n", "g">>, <<"c", "a", "t", "c", "h">>,
   <<"c", "a", "t", "c", "h", "e", "s">>, <<"c", "a", "u", "g", "h", "t">>,
   <<"c", "a", "t", "c", "h", "i", "n", "g">>, <<"d", "e", "a", "l">>,
   <<"d", "e", "a", "l", "s">>, <<"d", "e", "a", "l", "t">>,
   <<"d", "e", "a", "l", "i", "n", "g">>, <<"w", "i", "n">>,
   <<"w", "i", "n", "s">>, <<"w", "o", "n">>,
   <<"w", "i", "n", "n", "i", "n", "g">>, <<"f", "o", "r", "g", "e", "t">>,
   <<"f", "o", "r", "g", "e", "t", "s">>, <<"f", "o", "r", "g", "o", "t">>,
   <<"f", "o", "r", "g", "o", "t", "t", "e", "n">>,
   <<"f", "o", "r", "g", "e", "t", "t", "i", "n", "g">>,
   <<"s", "e", "l", "l">>, <<"s", "e", "l", "l", "s">>,
   <<"s", "o", "l", "d">>, <<"s", "e", "l", "l", "i", "n", "g">>,
   <<"f", "i", "g", "h", "t">>, <<"f", "i", "g", "h", "t", "s">>,
   <<"f", "o", "u", "g", "h", "t">>,
   <<"f", "i", "g", "h", "t", "i", "n", "g">>, <<"b", "e", "a", "r">>,
   <<"b", "e", "a", "r", "s">>, <<"b", "o", "r", "e">>,
   <<"b", "o", "r", "n">>, <<"b", "o", "r", "n", "e">>,
   <<"b", "e", "a", "r", "i", "n", "g">>, <<"t", "e", "a", "c", "h">>,
   <<"t", "e", "a", "c", "h", "e", "s">>, <<"t", "a", "u", "g", "h", "t">>,
   <<"t", "e", "a", "c", "h", "i", "n", "g">>, <<"e", "a", "t">>,
   <<"e", "a", "t", "s">>, <<"a", "t", "e">>, <<"e", "a", "t", "e", "n">>,
   <<"e", "a", "t", "i", "n", "g">>, <<"f", "l", "y">>,
   <<"f", "l", "i", "e", "s">>, <<"f", "l", "e", "w">>,
   <<"f", "l", "o", "w", "n">>, <<"f", "l", "y", "i", "n", "g">>,
   <<"s", "i", "n", "g">>, <<"s", "i", "n", "g", "s">>,
   <<"s", "a", "n", "g">>, <<"s", "u", "n", "g">>,
   <<"s", "i", "n", "g", "i", "n", "g">>, <<"s", "w", "i", "m">>,
   <<"s", "w", "i", "m", "s">>, <<"s", "w", "a", "m">>,
   <<"s", "w", "u", "m">>, <<"s", "w", "i", "m", "m", "i", "n", "g">>}

\* new Set([...])
MODAL_VERBS ==
  {<<"c", "a", "n">>, <<"c", "o", "u", "l", "d">>, <<"m", "a", "y">>,
   <<"m", "i", "g", "h", "t">>, <<"m", "u", "s", "t">>,
   <<"s", "h", "a", "l", "l">>, <<"s", "h", "o", "u", "l", "d">>,
   <<"w", "i", "l", "l">>, <<"w", "o", "u", "l", "d">>,
   <<"o", "u", "g", "h", "t">>, <<"n", "e", "e", "d">>,
   <<"d", "a", "r", "e">>}

\* new Set([...])
DETERMINERS ==
  {<<"t", "h", "e">>, <<"a">>, <<"a", "n">>, <<"t", "h", "i", "s">>,
   <<"t", "h", "a", "t">>, <<"t", "h", "e", "s", "e">>,
   <<"t", "h", "o", "s", "e">>, <<"m", "y">>, <<"y", "o", "u", "r">>,
   <<"h", "i", "s">>, <<"h", "e", "r">>, <<"i", "t", "s">>,
   <<"o", "u", "r">>, <<"t", "h", "e", "i", "r">>, <<"s", "o", "m", "e">>,
   <<"a", "n", "y">>, <<"n", "o">>, <<"e", "v", "e", "r", "y">>,
   <<"e", "a", "c", "h">>, <<"e", "i", "t", "h", "e", "r">>,
   <<"n", "e", "i", "t", "h", "e", "r">>, <<"m", "u", "c", "h">>,
   <<"m", "a", "n", "y">>, <<"m", "o", "r", "e">>, <<"m", "o", "s", "t">>,
   <<"f", "e", "w">>, <<"l", "i", "t", "t", "l", "e">>,
   <<"s", "e", "v", "e", "r", "a", "l">>, <<"a", "l", "l">>,
   <<"b", "o", "t", "h">>, <<"h", "a", "l", "f">>,
   <<"a", "n", "o", "t", "h", "e", "r">>, <<"o", "t", "h", "e", "r">>}

\* new Set([...])
PREPOSITIONS ==
  {<<"i", "n">>, <<"o", "n">>, <<"a", "t">>, <<"t", "o">>, <<"f", "o", "r">>,
   <<"w", "i", "t", "h">>, <<"f", "r", "o", "m">>, <<"b", "y">>,
   <<"a", "b", "o", "u", "t">>, <<"a", "s">>, <<"i", "n", "t", "o">>,
   <<"l", "i", "k", "e">>, <<"t", "h", "r", "o", "u", "g", "h">>,
   <<"a", "f", "t", "e", "r">>, <<"o", "v", "e", "r">>,
   <<"b", "e", "t", "w", "e", "e", "n">>, <<"o", "u", "t">>,
   <<"a", "g", "a", "i", "n", "s", "t">>, <<"d", "u", "r", "i", "n", "g">>,
   <<"w", "i", "t", "h", "o", "u", "t">>, <<"b", "e", "f", "o", "r", "e">>,
   <<"u", "n", "d", "e", "r">>, <<"a", "r", "o", "u", "n", "d">>,
   <<"a", "m", "o", "n", "g">>, <<"o", "f">>, <<"u", "p">>,
   <<"d", "o", "w", "n">>, <<"o", "f", "f">>, <<"a", "b", "o", "v", "e">>,
   <<"n", "e", "a", "r">>, <<"b", "e", "l", "o", "w">>,
   <<"a", "c", "r", "o", "s", "s">>, <<"b", "e", "y", "o", "n", "d">>,
   <<"p", "l", "u", "s">>, <<"e", "x", "c", "e", "p", "t">>,
   <<"b", "u", "t">>, <<"s", "i", "n", "c", "e">>,
   <<"u", "n", "t", "i", "l">>, <<"w", "i", "t", "h", "i", "n">>,
   <<"a", "l", "o", "n", "g">>, <<"p", "a", "s", "t">>,
   <<"t", "o", "w", "a", "r", "d">>, <<"t", "o", "w", "a", "r", "d", "s">>,
   <<"u", "p", "o", "n">>, <<"n", "e", "x", "t">>,
   <<"d", "e", "s", "p", "i", "t", "e">>,
   <<"u", "n", "d", "e", "r", "n", "e", "a", "t", "h">>,
   <<"a", "l", "o", "n", "g", "s", "i", "d", "e">>, <<"v", "i", "a">>,
   <<"p", "e", "r">>, <<"b", "e", "s", "i", "d", "e">>,
   <<"b", "e", "s", "i", "d", "e", "s">>,
   <<"t", "h", "r", "o", "u", "g", "h", "o", "u", "t">>,
   <<"c", "o", "n", "c", "e", "r", "n", "i", "n", "g">>,
   <<"r", "e", "g", "a", "r", "d", "i", "n", "g">>}

\* new Set([...])
CONJUNCTIONS ==
  {<<"a", "n", "d">>, <<"o", "r">>, <<"b", "u", "t">>, <<"n", "o", "r">>,
   <<"s", "o">>, <<"f", "o", "r">>, <<"y", "e", "t">>,
   <<"a", "l", "t", "h", "o", "u", "g", "h">>,
   <<"b", "e", "c", "a", "u", "s", "e">>, <<"s", "i", "n", "c", "e">>,
   <<"u", "n", "l", "e", "s", "s">>, <<"w", "h", "i", "l", "e">>,
   <<"w", "h", "e", "r", "e">>, <<"i", "f">>, <<"t", "h", "a", "n">>,
   <<"t", "h", "a", "t">>, <<"w", "h", "e", "t", "h", "e", "r">>,
   <<"t", "h", "o", "u", "g", "h">>, <<"e", "v", "e", "n">>,
   <<"w", "h", "e", "n">>, <<"w", "h", "e", "n", "e", "v", "e", "r">>,
   <<"w", "h", "e", "r", "e", "v", "e", "r">>,
   <<"w", "h", "e", "r", "e", "a", "s">>, <<"a", "f", "t", "e", "r">>,
   <<"b", "e", "f", "o", "r", "e">>, <<"u", "n", "t", "i", "l">>,
   <<"o", "n", "c", "e">>, <<"a", "s">>}

\* new Set([...])
PRONOUNS ==
  {<<"i">>, <<"y", "o", "u">>, <<"h", "e">>, <<"s", "h", "e">>, <<"i", "t">>,
   <<"w", "e">>, <<"t", "h", "e", "y">>, <<"m", "e">>, <<"h", "i", "m">>,
   <<"h", "e", "r">>, <<"u", "s">>, <<"t", "h", "e", "m">>, <<"m", "y">>,
   <<"m", "i", "n", "e">>, <<"y", "o", "u", "r">>,
   <<"y", "o", "u", "r", "s">>, <<"h", "i", "s">>, <<"h", "e", "r", "s">>,
   <<"i", "t", "s">>, <<"o", "u", "r">>, <<"o", "u", "r", "s">>,
   <<"t", "h", "e", "i", "r">>, <<"t", "h", "e", "i", "r", "s">>,
   <<"m", "y", "s", "e", "l", "f">>,
   <<"y", "o", "u", "r", "s", "e", "l", "f">>,
   <<"h", "i", "m", "s", "e", "l", "f">>,
   <<"h", "e", "r", "s", "e", "l", "f">>, <<"i", "t", "s", "e", "l", "f">>,
   <<"o", "u", "r", "s", "e", "l", "v", "e", "s">>,
   <<"y", "o", "u", "r", "s", "e", "l", "v", "e", "s">>,
   <<"t", "h", "e", "m", "s", "e", "l", "v", "e", "s">>,
   <<"t", "h", "i", "s">>, <<"t", "h", "a", "t">>,
   <<"t", "h", "e", "s", "e">>, <<"t", "h", "o", "s", "e">>,
   <<"w", "h", "o">>, <<"w", "h", "o", "m">>, <<"w", "h", "o", "s", "e">>,
   <<"w", "h", "i", "c", "h">>, <<"w", "h", "a", "t">>,
   <<"w", "h", "o", "e", "v", "e", "r">>,
   <<"w", "h", "o", "m", "e", "v", "e", "r">>,
   <<"w", "h", "i", "c", "h", "e", "v", "e", "r">>,
   <<"w", "h", "a", "t", "e", "v", "e", "r">>,
   <<"a", "n", "y", "b", "o", "d", "y">>, <<"a", "n", "y", "o", "n", "e">>,
   <<"a", "n", "y", "t", "h", "i", "n", "g">>,
   <<"e", "v", "e", "r", "y", "b", "o", "d", "y">>,
   <<"e", "v", "e", "r", "y", "o", "n", "e">>,
   <<"e", "v", "e", "r", "y", "t", "h", "i", "n", "g">>,
   <<"n", "o", "b", "o", "d", "y">>, <<"n", "o", " ", "o", "n", "e">>,
   <<"n", "o", "t", "h", "i", "n", "g">>,
   <<"s", "o", "m", "e", "b", "o", "d", "y">>,
   <<"s", "o", "m", "e", "o", "n", "e">>,
   <<"s", "o", "m", "e", "t", "h", "i", "n", "g">>}

\* new Set([...])
COMMON_ADVERBS ==
  {<<"v", "e", "r", "y">>, <<"q", "u", "i", "t", "e">>, <<"t", "o", "o">>,
   <<"e", "n", "o", "u", "g", "h">>, <<"r", "a", "t", "h", "e", "r">>,
   <<"f", "a", "i", "r", "l", "y">>, <<"p", "r", "e", "t", "t", "y">>,
   <<"a", "l", "m", "o", "s", "t">>, <<"n", "e", "a", "r", "l", "y">>,
   <<"j", "u", "s", "t">>, <<"o", "n", "l", "y">>, <<"e", "v", "e", "n">>,
   <<"s", "t", "i", "l", "l">>, <<"a", "l", "s", "o">>, <<"y", "e", "t">>,
   <<"a", "l", "r", "e", "a", "d", "y">>, <<"s", "o", "o", "n">>,
   <<"n", "o", "w">>, <<"t", "h", "e", "n">>, <<"h", "e", "r", "e">>,
   <<"t", "h", "e", "r", "e">>,
   <<"e", "v", "e", "r", "y", "w", "h", "e", "r", "e">>,
   <<"n", "o", "w", "h", "e", "r", "e">>,
   <<"s", "o", "m", "e", "w", "h", "e", "r", "e">>,
   <<"a", "n", "y", "w", "h", "e", "r", "e">>,
   <<"a", "l", "w", "a", "y", "s">>, <<"n", "e", "v", "e", "r">>,
   <<"o", "f", "t", "e", "n">>,
   <<"s", "o", "m", "e", "t", "i", "m", "e", "s">>,
   <<"r", "a", "r", "e", "l", "y">>, <<"s", "e", "l", "d", "o", "m">>,
   <<"u", "s", "u", "a", "l", "l", "y">>,
   <<"f", "r", "e", "q", "u", "e", "n", "t", "l", "y">>,
   <<"o", "c", "c", "a", "s", "i", "o", "n", "a", "l", "l", "y">>,
   <<"w", "e", "l", "l">>, <<"b", "a", "d", "l", "y">>,
   <<"h", "a", "r", "d">>, <<"f", "a", "s", "t">>, <<"s", "l", "o", "w">>,
   <<"h", "i", "g", "h">>, <<"l", "o", "w">>, <<"e", "a", "r", "l", "y">>,
   <<"l", "a", "t", "e">>, <<"f", "a", "r">>, <<"n", "e", "a", "r">>,
   <<"s", "t", "r", "a", "i", "g", "h", "t">>, <<"r", "i", "g", "h", "t">>,
   <<"w", "r", "o", "n", "g">>, <<"t", "o", "g", "e", "t", "h", "e", "r">>,
   <<"a", "p", "a", "r", "t">>, <<"a", "w", "a", "y">>,
   <<"b", "a", "c", "k">>, <<"f", "o", "r", "w", "a", "r", "d">>,
   <<"b", "a", "c", "k", "w", "a", "r", "d">>, <<"u", "p">>,
   <<"d", "o", "w", "n">>, <<"i", "n">>, <<"o", "u", "t">>,
   <<"o", "f", "f">>, <<"o", "n">>, <<"o", "v", "e", "r">>,
   <<"u", "n", "d", "e", "r">>, <<"i", "n", "d", "e", "e", "d">>,
   <<"p", "e", "r", "h", "a", "p", "s">>, <<"m", "a", "y", "b", "e">>,
   <<"p", "r", "o", "b", "a", "b", "l", "y">>,
   <<"p", "o", "s", "s", "i", "b", "l", "y">>,
   <<"c", "e", "r", "t", "a", "i", "n", "l", "y">>,
   <<"d", "e", "f", "i", "n", "i", "t", "e", "l", "y">>,
   <<"s", "u", "r", "e", "l", "y">>, <<"r", "e", "a", "l", "l", "y">>,
   <<"t", "r", "u", "l", "y">>}

\* POS_RULES: each /(...)$/i pattern as its source text and the suffixes it
\* accepts, in list order
POS_RULES ==
  <<
   [source |-> <<"l", "y", "$">>,
    suffixes |-> <<<<"l", "y">>>>,
    pos |-> "adverb", confidence |-> "high"],
   [source |-> <<"w", "a", "r", "d", "(", "s", ")", "?", "$">>,
    suffixes |-> <<<<"w", "a", "r", "d">>, <<"w", "a", "r", "d", "s">>>>,
    pos |-> "adverb", confidence |-> "medium"],
   [source |-> <<"w", "i", "s", "e", "$">>,
    suffixes |-> <<<<"w", "i", "s", "e">>>>,
    pos |-> "adverb", confidence |-> "medium"],
   [source |-> <<"i", "n", "g", "$">>,
    suffixes |-> <<<<"i", "n", "g">>>>,
    pos |-> "verb (gerund)", confidence |-> "high"],
   [source |-> <<"e", "d", "$">>,
    suffixes |-> <<<<"e", "d">>>>,
    pos |-> "verb (past)", confidence |-> "medium"],
   [source |-> <<"(", "i", "z", "e", "|", "i", "s", "e", "|", "a", "t", "e", "|", "f", "y", "|", "e", "n", ")", "$">>,
    suffixes |-> <<<<"i", "z", "e">>, <<"i", "s", "e">>, <<"a", "t", "e">>, <<"f", "y">>, <<"e", "n">>>>,
    pos |-> "verb", confidence |-> "medium"],
   [source |-> <<"(", "t", "i", "o", "n", "|", "s", "i", "o", "n", "|", "m", "e", "n", "t", "|", "n", "e", "s", "s", "|", "i", "t", "y", "|", "a", "n", "c", "e", "|", "e", "n", "c", "e", "|", "s", "h", "i", "p", "|", "h", "o", "o", "d", ")", "$">>,
    suffixes |-> <<<<"t", "i", "o", "n">>, <<"s", "i", "o", "n">>, <<"m", "e", "n", "t">>, <<"n", "e", "s", "s">>, <<"i", "t", "y">>, <<"a", "n", "c", "e">>, <<"e", "n", "c", "e">>, <<"s", "h", "i", "p">>, <<"h", "o", "o", "d">>>>,
    pos |-> "noun", confidence |-> "high"],
   [source |-> <<"(", "e", "r", "|", "o", "r", "|", "i", "s", "t", "|", "i", "a", "n", "|", "a", "n", "t", "|", "e", "n", "t", ")", "$">>,
    suffixes |-> <<<<"e", "r">>, <<"o", "r">>, <<"i", "s", "t">>, <<"i", "a", "n">>, <<"a", "n", "t">>, <<"e", "n", "t">>>>,
    pos |-> "noun", confidence |-> "medium"],
   [source |-> <<"s", "$">>,
    suffixes |-> <<<<"s">>>>,
    pos |-> "noun (plural)", confidence |-> "low"],
   [source |-> <<"(", "o", "u", "s", "|", "i", "o", "u", "s", "|", "e", "o", "u", "s", ")", "$">>,
    suffixes |-> <<<<"o", "u", "s">>, <<"i", "o", "u", "s">>, <<"e", "o", "u", "s">>>>,
    pos |-> "adjective", confidence |-> "high"],
   [source |-> <<"(", "f", "u", "l", "|", "l", "e", "s", "s", "|", "a", "b", "l", "e", "|", "i", "b", "l", "e", ")", "$">>,
    suffixes |-> <<<<"f", "u", "l">>, <<"l", "e", "s", "s">>, <<"a", "b", "l", "e">>, <<"i", "b", "l", "e">>>>,
    pos |-> "adjective", confidence |-> "high"],
   [source |-> <<"(", "a", "l", "|", "i", "a", "l", "|", "i", "c", "|", "i", "v", "e", "|", "i", "s", "h", "|", "y", ")", "$">>,
    suffixes |-> <<<<"a", "l">>, <<"i", "a", "l">>, <<"i", "c">>, <<"i", "v", "e">>, <<"i", "s", "h">>, <<"y">>>>,
    pos |-> "adjective", confidence |-> "medium"],
   [source |-> <<"(", "a", "n", "|", "e", "a", "n", "|", "i", "a", "n", ")", "$">>,
    suffixes |-> <<<<"a", "n">>, <<"e", "a", "n">>, <<"i", "a", "n">>>>,
    pos |-> "adjective", confidence |-> "low"]
  >>

\* s ends with suf
EndsWith(s, suf) ==
  Len(s) >= Len(suf) /\ SubSeq(s, Len(s) - Len(suf) + 1, Len(s)) = suf

\* s.includes(part)
includes(s, part) ==
  \E j \in 0..(Len(s) - Len(part)) : SubSeq(s, j + 1, j + Len(part)) = part

\* rule.pattern.test(word): the i flag makes the suffix match in any casing
RuleTest(rule, word) ==
  \E k \in 1..Len(rule.suffixes) : EndsWith(toLowerCase(word), rule.suffixes[k])

\* what a strategy yields when it does not return
FallThrough == [pos |-> "", confidence |-> ""]

\* Strategy 1: /ly$/i and /ing$/i
SuffixFirst(word) ==
  IF EndsWith(toLowerCase(word), <<"l", "y">>)
  THEN [pos |-> "adverb", confidence |-> "high", detail |-> "suffix pattern"]
  ELSE IF EndsWith(toLowerCase(word), <<"i", "n", "g">>)
  THEN [pos |-> "verb (gerund)", confidence |-> "high", detail |-> "suffix pattern"]
  ELSE FallThrough

\* the word lists with the determiners looked up before the pronouns
KnownListsDeterminersFirst(lowerWord) ==
  IF lowerWord \in MODAL_VERBS
  THEN [pos |-> "modal verb", confidence |-> "high", detail |-> "from known list"]
  ELSE IF lowerWord \in IRREGULAR_VERBS
  THEN [pos |-> "verb", confidence |-> "high", detail |-> "irregular verb"]
  ELSE IF lowerWord \in DETERMINERS
  THEN [pos |-> "determiner", confidence |-> "high", detail |-> "from known list"]
  ELSE IF lowerWord \in PRONOUNS
  THEN [pos |-> "pronoun", confidence |-> "high", detail |-> "from known list"]
  ELSE IF lowerWord \in PREPOSITIONS
  THEN [pos |-> "preposition", confidence |-> "high", detail |-> "from known list"]
  ELSE IF lowerWord \in CONJUNCTIONS
  THEN [pos |-> "conjunction", confidence |-> "high", detail |-> "from known list"]
  ELSE IF lowerWord \in COMMON_ADVERBS
  THEN [pos |-> "adverb", confidence |-> "high", detail |-> "from known list"]
  ELSE FallThrough

\* Strategy 2: the known word lists
KnownLists(lowerWord) ==
  IF lowerWord \in MODAL_VERBS
  THEN [pos |-> "modal verb", confidence |-> "high", detail |-> "from known list"]
  ELSE IF lowerWord \in IRREGULAR_VERBS
  THEN [pos |-> "verb", confidence |-> "high", detail |-> "irregular verb"]
  ELSE IF lowerWord \in PRONOUNS
  THEN [pos |-> "pronoun", confidence |-> "high", detail |-> "from known list"]
  ELSE IF lowerWord \in DETERMINERS
  THEN [pos |-> "determiner", confidence |-> "high", detail |-> "from known list"]
  ELSE IF lowerWord \in PREPOSITIONS
  THEN [pos |-> "preposition", confidence |-> "high", detail |-> "from known list"]
  ELSE IF lowerWord \in CONJUNCTIONS
  THEN [pos |-> "conjunction", confidence |-> "high", detail |-> "from known list"]
  ELSE IF lowerWord \in COMMON_ADVERBS
  THEN [pos |-> "adverb", confidence |-> "high", detail |-> "from known list"]
  ELSE FallThrough

\* rule.pattern.source.includes('ly$') || rule.pattern.source.includes('ing$')
SkippedRule(rule) ==
  \/ includes(rule.source, <<"l", "y", "$">>)
  \/ includes(rule.source, <<"i", "n", "g", "$">>)

\* Strategy 3: the first rule of POS_RULES, other than the skipped ones,
\* whose pattern matches
OtherSuffixes(word) ==
  LET hits == {k \in 1..Len(POS_RULES) :
                 ~SkippedRule(POS_RULES[k]) /\ RuleTest(POS_RULES[k], word)}
  IN  IF hits = {} THEN FallThrough
      ELSE [pos |-> POS_RULES[Min(hits)].pos,
            confidence |-> POS_RULES[Min(hits)].confidence,
            detail |-> "suffix pattern"]

\* Capitalization hints
Capitalization(word) ==
  IF /\ word[1] = UpperChar(word[1])
     /\ Len(word) > 1
     /\ word # toUpperCase(word)
     /\ Len(word) > 2
  THEN [pos |-> "proper noun", confidence |-> "low", detail |-> "capitalization"]
  ELSE FallThrough

\* Strategy 4 and the default
LengthBased(word) ==
  IF Len(word) <= 3
  THEN [pos |-> "function word", confidence |-> "low", detail |-> "short word"]
  ELSE [pos |-> "unknown", confidence |-> "none", detail |-> "no pattern matched"]

\* detectPOS(word): !word holds for null and for the empty string
detectPOS(word) ==
  IF word = NULL \/ word = <<>> THEN [pos |-> "unknown", confidence |-> "none"]
  ELSE IF SuffixFirst(word) # FallThrough THEN SuffixFirst(word)
  ELSE IF KnownLists(toLowerCase(word)) # FallThrough THEN KnownLists(toLowerCase(word))
  ELSE IF OtherSuffixes(word) # FallThrough THEN OtherSuffixes(word)
  ELSE IF Capitalization(word) # FallThrough THEN Capitalization(word)
  ELSE LengthBased(word)

(***************************************************************************)
(* The topic cache (topicExtraction.js)                                    *)
(***************************************************************************)
DigitChars == <<"0", "1", "2", "3", "4", "5", "6", "7", "8", "9">>

RECURSIVE DecimalString(_)
\* '' + n for a number n >= 0
DecimalString(n) ==
  IF n < 10 THEN <<DigitChars[n + 1]>>
  ELSE DecimalString(n \div 10) \o <<DigitChars[(n % 10) + 1]>>

\* createTextHash(text)
createTextHash(t) ==
  IF Len(t) <= maxLength THEN t
  ELSE slice(t, 0, maxLength) \o <<".", ".", ".">> \o DecimalString(Len(t))

\* a hit that leaves the entry where it is
LeftInPlace(cache, hash) == cache

\* termFrequencyCache.delete(hash); termFrequencyCache.set(hash, cached)
MovedToEnd(cache, hash) ==
  MapSet(MapDelete(cache, hash), hash, MapGet(cache, hash))

\* an eviction that waits for two entries too many
OverCapacityByTwo(cache) == Len(cache) > MAX_CACHE_SIZE + 1

\* termFrequencyCache.size > MAX_CACHE_SIZE
OverCapacity(cache) == Len(cache) > MAX_CACHE_SIZE

\* termFrequencyCache.delete(termFrequencyCache.keys().next().value)
EvictFirst(cache) == MapDelete(cache, MapKeys(cache)[1])

\* getCachedTopics(text, n, algorithm): the outcome of the call, and the
\* cache, the document frequencies and the document count after it
getCachedTopics(t, n, algorithm, cache, df, total) ==
  IF t = NULL
  THEN [outcome |-> TypeError, cache |-> cache, df |-> df, total |-> total]
  ELSE
    LET hash == createTextHash(t)
        Missed(r) ==
          IF r.keywords.thrown
          THEN [outcome |-> TypeError, cache |-> cache,
                df |-> r.df, total |-> r.total]
          ELSE LET added == MapSet(cache, hash, r.keywords.value)
               IN  [outcome |-> r.keywords,
                    cache |-> IF OverCapacity(added) THEN EvictFirst(added)
                              ELSE added,
                    df |-> r.df, total |-> r.total]
    IN  IF MapHas(cache, hash)
        THEN [outcome |-> Returns(MapGet(cache, hash)),
              cache |-> MovedToEnd(cache, hash),
              df |-> df, total |-> total]
        ELSE Once(Missed, getTopKeywords(t, n, algorithm, df, total))


(***************************************************************************)
(* Specification of the boundary resolvers: any text, any offset           *)
(***************************************************************************)
BoundaryAlphabet == {"a", "A", "-", " ", ".", "\n"}
BoundaryTexts == SeqsUpTo(BoundaryAlphabet, MaxLen)
Offsets == (0 - Overshoot)..(MaxLen + Overshoot)

\* the variables the boundary resolvers do not touch
RewriterIdle == target = <<>> /\ replacement = <<>> /\ original = <<>>
DetectorIdle == weakWordPatterns = NULL

\* the values of the variables an operation family does not use
\* a call without further arguments
NoArguments == [count |-> 0]
TaggerIdle == queryWord = <<>>
FlagIdle == leftMarker = <<>> /\ rightMarker = <<>>
\* the rule set as configured, nothing compiled yet
RulesAsConfigured ==
  ruleSet = WEAK_WORDS /\ compilations = 0 /\ rulesChanged = FALSE
\* const termFrequencyCache = new Map(); const documentFrequency = new Map();
\* let totalDocuments = 0
\* no lookup was made: the panel shows its empty message
ClientIdle ==
  /\ currentController = 0
  /\ requestToken = 0
  /\ requests = <<>>
  /\ lookups = <<>>
  /\ resultsPanel = "empty"

\* editor.defaultText, a long sentence in the settings
defaultText == <<"a", " ", "a">>

\* the textarea after this.editor.value = v: a new value leaves the cursor at
\* its end
Loaded(v) == [value |-> v, selectionStart |-> Len(v), selectionEnd |-> Len(v)]

\* new EditorController(editorElement) with nothing saved: the default text
\* and no undo history
EditorFresh ==
  /\ editor = Loaded(defaultText)
  /\ history = <<>>

TopicsEmpty ==
  /\ termFrequencyCache = <<>>
  /\ documentFrequency = <<>>
  /\ totalDocuments = 0
  /\ useLog = <<>>

InitBounds ==
  /\ text \in BoundaryTexts
  /\ index \in {i \in Offsets : i <= Len(text) + Overshoot}
  /\ op = "none"
  /\ ret = NULL
  /\ RewriterIdle
  /\ DetectorIdle
  /\ TaggerIdle /\ FlagIdle /\ RulesAsConfigured /\ TopicsEmpty
  /\ args = NoArguments
  /\ ClientIdle /\ EditorFresh

GetWordFragmentCall ==
  /\ op' = "getWordFragment"
  /\ ret' = getWordFragment(text, index)
  /\ UNCHANGED <<text, index, target, replacement, original, weakWordPatterns>>
  /\ UNCHANGED <<queryWord, args, flagArgs, rulesVars, topicVars>>
  /\ UNCHANGED <<clientVars, editorVars>>

GetSentenceBoundsCall ==
  /\ op' = "getSentenceBounds"
  /\ ret' = getSentenceBounds(text, index)
  /\ UNCHANGED <<text, index, target, replacement, original, weakWordPatterns>>
  /\ UNCHANGED <<queryWord, args, flagArgs, rulesVars, topicVars>>
  /\ UNCHANGED <<clientVars, editorVars>>

NextBounds == GetWordFragmentCall \/ GetSentenceBoundsCall

SpecBounds == InitBounds /\ [][NextBounds]_vars

InRange == 0 <= index /\ index <= Len(text)

(***************************************************************************)
(* Specification of the rewriter: replaceWordGlobally on any text          *)
(***************************************************************************)
ReplaceAlphabet == {"a", "A", "-", " ", "."}
ReplaceTexts == SeqsUpTo(ReplaceAlphabet, MaxLen)
\* non-empty targets: a word, a two-letter word, a word ending in a hyphen,
\* and a word ending in a character that escapeRegExp has to escape
Targets == {<<"a">>, <<"A", "a">>, <<"a", "-">>, <<"a", ".">>}
GlobalReplacements == {<<"b">>, <<"B", "c">>, <<"b", " ", "c">>}

InitReplace ==
  /\ text \in ReplaceTexts
  /\ target \in Targets
  /\ replacement \in GlobalReplacements
  /\ index = 0
  /\ original = <<>>
  /\ op = "none"
  /\ ret = NULL
  /\ DetectorIdle
  /\ TaggerIdle /\ FlagIdle /\ RulesAsConfigured /\ TopicsEmpty
  /\ args = NoArguments
  /\ ClientIdle /\ EditorFresh

ReplaceWordGloballyCall ==
  /\ op' = "replaceWordGlobally"
  /\ ret' = replaceWordGlobally(text, target, replacement)
  /\ UNCHANGED <<text, index, target, replacement, original, weakWordPatterns>>
  /\ UNCHANGED <<queryWord, args, flagArgs, rulesVars, topicVars>>
  /\ UNCHANGED <<clientVars, editorVars>>

NextReplace == ReplaceWordGloballyCall

SpecReplace == InitReplace /\ [][NextReplace]_vars

(***************************************************************************)
(* Specification of preserveCase: any original, any replacement            *)
(***************************************************************************)
MaxReplacementLen == 4
CaseAlphabet == {"b", "C", "1", " ", "\t"}
CaseReplacements == SeqsUpTo(CaseAlphabet, MaxReplacementLen)
Originals ==
  {<<>>, <<"a">>, <<"A">>, <<"A", "b">>, <<"A", "B">>, <<"a", "B">>,
   <<"1">>, <<"1", "A">>, <<"-", "a">>, <<"A", "-", "b">>}

InitCase ==
  /\ original \in Originals
  /\ replacement \in CaseReplacements
  /\ text = <<>>
  /\ index = 0
  /\ target = <<>>
  /\ op = "none"
  /\ ret = NULL
  /\ DetectorIdle
  /\ TaggerIdle /\ FlagIdle /\ RulesAsConfigured /\ TopicsEmpty
  /\ args = NoArguments
  /\ ClientIdle /\ EditorFresh

PreserveCaseCall ==
  /\ op' = "preserveCase"
  /\ ret' = preserveCase(original, replacement)
  /\ UNCHANGED <<text, index, target, replacement, original, weakWordPatterns>>
  /\ UNCHANGED <<queryWord, args, flagArgs, rulesVars, topicVars>>
  /\ UNCHANGED <<clientVars, editorVars>>

NextCase == PreserveCaseCall

SpecCase == InitCase /\ [][NextCase]_vars

(***************************************************************************)
(* Specification of the weak-word detector: texts made of a few words      *)
(***************************************************************************)
MaxPieces == 3
\* the vocabulary of the texts: an intensifier, a capitalised word listed as
\* intensifier and as hedge, a vague word, the two words of a phrase, and
\* a space, a hyphen and a letter to separate words or to extend them
WeakPieces ==
  {<<"v", "e", "r", "y">>, <<"Q", "u", "i", "t", "e">>,
   <<"s", "t", "u", "f", "f">>, <<"k", "i", "n", "d">>, <<"o", "f">>,
   <<" ">>, <<"-">>, <<"s">>}

RECURSIVE Flatten(_)
Flatten(ps) == IF ps = <<>> THEN <<>> ELSE Head(ps) \o Flatten(Tail(ps))

WeakTexts == {Flatten(ps) : ps \in SeqsUpTo(WeakPieces, MaxPieces)}

InitWeak ==
  /\ text \in WeakTexts
  /\ index = 0
  /\ RewriterIdle
  /\ op = "none"
  /\ ret = NULL
  /\ DetectorIdle
  /\ TaggerIdle /\ FlagIdle /\ RulesAsConfigured /\ TopicsEmpty
  /\ args = NoArguments
  /\ ClientIdle /\ EditorFresh

\* what one getWeakWordPatterns() call does to the matcher cache
UsesMatcher ==
  /\ weakWordPatterns' = getWeakWordPatterns(weakWordPatterns)
  /\ compilations' =
       IF Compiles(weakWordPatterns) THEN compilations + 1 ELSE compilations
  /\ UNCHANGED <<ruleSet, rulesChanged>>

DetectWeakWordsCall ==
  /\ UsesMatcher
  /\ op' = "detectWeakWords"
  /\ ret' = detectWeakWords(StringOf(text), getWeakWordPatterns(weakWordPatterns))
  /\ UNCHANGED <<text, index, target, replacement, original>>
  /\ UNCHANGED <<queryWord, args, clientVars, editorVars, flagArgs, topicVars>>

\* resetWeakWordPatterns()
ResetWeakWordPatternsCall ==
  /\ weakWordPatterns' = NULL
  /\ compilations' = 0
  /\ rulesChanged' = FALSE
  /\ op' = "resetWeakWordPatterns"
  /\ ret' = NULL
  /\ UNCHANGED <<text, index, target, replacement, original, ruleSet>>
  /\ UNCHANGED <<queryWord, args, clientVars, editorVars, flagArgs, topicVars>>

NextWeak == DetectWeakWordsCall \/ ResetWeakWordPatternsCall

SpecWeak == InitWeak /\ [][NextWeak]_vars

(***************************************************************************)
(* Specification of flagWeakWords: texts made of a few words, two pairs    *)
(* of markers                                                              *)
(***************************************************************************)
\* the default pair, and a pair whose left and right marker are the same
MarkerPairs ==
  {[left |-> <<LAQUO>>, right |-> <<RAQUO>>],
   [left |-> <<"*", "*">>, right |-> <<"*", "*">>]}

InitFlag ==
  /\ text \in WeakTexts
  /\ \E pair \in MarkerPairs :
       leftMarker = pair.left /\ rightMarker = pair.right
  /\ index = 0
  /\ RewriterIdle
  /\ op = "none"
  /\ ret = NULL
  /\ DetectorIdle
  /\ TaggerIdle /\ RulesAsConfigured /\ TopicsEmpty
  /\ args = NoArguments
  /\ ClientIdle /\ EditorFresh

FlagWeakWordsCall ==
  /\ UsesMatcher
  /\ op' = "flagWeakWords"
  /\ ret' = flagWeakWords(text, getWeakWordPatterns(weakWordPatterns),
                          leftMarker, rightMarker)
  /\ UNCHANGED <<text, index, target, replacement, original>>
  /\ UNCHANGED <<queryWord, args, clientVars, editorVars, flagArgs, topicVars>>

NextFlag == FlagWeakWordsCall

SpecFlag == InitFlag /\ [][NextFlag]_vars

(***************************************************************************)
(* Specification of the queries: each query on a text of plain, weak and   *)
(* vague words, on a blank text, or on null                                *)
(***************************************************************************)
MaxPlainWords == 9   \* most words of a text that no rule lists
MaxWeakWords == 2    \* most intensifiers, and most vague words, of a text

\* n copies of the word w
Copies(w, n) == [k \in 1..n |-> w]

\* p plain words, then i intensifiers, then v vague words, single-spaced
WordsText(p, i, v) ==
  join(Copies(<<"x">>, p) \o Copies(<<"v", "e", "r", "y">>, i)
       \o Copies(<<"s", "t", "u", "f", "f">>, v), <<" ">>)

CountedTexts ==
  {WordsText(p, i, v) :
     p \in 0..MaxPlainWords, i \in 0..MaxWeakWords, v \in 0..MaxWeakWords}

\* texts without a word, and texts with ragged whitespace, a word listed in
\* two categories, a phrase
BlankTexts == {<<>>, <<" ">>, <<"\t", " ", "\n">>}
OddTexts ==
  {<<" ", "v", "e", "r", "y", "\t", "\n", "x", " ", " ">>,
   <<"Q", "u", "i", "t", "e">>,
   <<"x", " ", "q", "u", "i", "t", "e", " ", "x">>,
   <<"k", "i", "n", "d", " ", "o", "f", " ", "x">>}

QueryTexts == {NULL} \cup BlankTexts \cup OddTexts \cup CountedTexts

\* the options extractKeywords is called with
QueryOptions ==
  {DefaultOptions,
   [DefaultOptions EXCEPT !.algorithm = "tfidf"],
   [DefaultOptions EXCEPT !.count = 1, !.minLength = 1]}

InitQueries ==
  /\ text \in QueryTexts
  /\ queryWord \in (IF text = NULL THEN {NULL} ELSE {<<>>})
  /\ index = 0
  /\ RewriterIdle
  /\ op = "none"
  /\ ret = NULL
  /\ DetectorIdle
  /\ FlagIdle /\ RulesAsConfigured /\ TopicsEmpty
  /\ args = NoArguments
  /\ ClientIdle /\ EditorFresh

CalculateWeakWordDensityCall ==
  /\ UsesMatcher
  /\ op' = "calculateWeakWordDensity"
  /\ ret' = calculateWeakWordDensity(text, getWeakWordPatterns(weakWordPatterns))
  /\ UNCHANGED <<text, index, target, replacement, original>>
  /\ UNCHANGED <<queryWord, args, clientVars, editorVars, flagArgs, topicVars>>

GetWritingStrengthCall ==
  /\ UsesMatcher
  /\ op' = "getWritingStrength"
  /\ ret' = getWritingStrength(text, getWeakWordPatterns(weakWordPatterns))
  /\ UNCHANGED <<text, index, target, replacement, original>>
  /\ UNCHANGED <<queryWord, args, clientVars, editorVars, flagArgs, topicVars>>

CountWordsCall ==
  /\ op' = "countWords"
  /\ ret' = countWords(text)
  /\ UNCHANGED <<text, index, target, replacement, original, weakWordPatterns>>
  /\ UNCHANGED <<queryWord, args, flagArgs, rulesVars, topicVars>>
  /\ UNCHANGED <<clientVars, editorVars>>

CalculateTermFrequencyCall ==
  /\ op' = "calculateTermFrequency"
  /\ ret' = calculateTermFrequency(text, 3)
  /\ UNCHANGED <<text, index, target, replacement, original, weakWordPatterns>>
  /\ UNCHANGED <<queryWord, args, flagArgs, rulesVars, topicVars>>
  /\ UNCHANGED <<clientVars, editorVars>>

ExtractKeywordsCall ==
  \E options \in QueryOptions :
    LET r == extractKeywords(text, options, documentFrequency, totalDocuments)
    IN  /\ op' = "extractKeywords"
        /\ ret' = r.keywords
        /\ documentFrequency' = r.df
        /\ totalDocuments' = r.total
        /\ UNCHANGED <<text, index, target, replacement, original, weakWordPatterns>>
        /\ UNCHANGED <<queryWord, args, flagArgs, rulesVars, termFrequencyCache, useLog>>
        /\ UNCHANGED <<clientVars, editorVars>>

DetectPOSCall ==
  /\ op' = "detectPOS"
  /\ ret' = detectPOS(queryWord)
  /\ UNCHANGED <<text, index, target, replacement, original, weakWordPatterns>>
  /\ UNCHANGED <<queryWord, args, flagArgs, rulesVars, topicVars>>
  /\ UNCHANGED <<clientVars, editorVars>>

NextQueries ==
  \/ DetectWeakWordsCall
  \/ CalculateWeakWordDensityCall
  \/ GetWritingStrengthCall
  \/ CountWordsCall
  \/ CalculateTermFrequencyCall
  \/ ExtractKeywordsCall
  \/ DetectPOSCall

SpecQueries == InitQueries /\ [][NextQueries]_vars


(***************************************************************************)
(* Specification: the matcher cache of weakWordDetector.js while the rule  *)
(* set is edited                                                           *)
(***************************************************************************)
\* WEAK_WORDS after WEAK_WORDS.vague.push('x')
WithVagueX ==
  [k \in 1..Len(WEAK_WORDS) |->
     IF WEAK_WORDS[k].category = "vague"
     THEN [WEAK_WORDS[k] EXCEPT !.words = Append(@, <<"x">>)]
     ELSE WEAK_WORDS[k]]

\* WEAK_WORDS after 'very' is taken out of WEAK_WORDS.intensifiers
WithoutVery ==
  [k \in 1..Len(WEAK_WORDS) |->
     IF WEAK_WORDS[k].category = "intensifiers"
     THEN [WEAK_WORDS[k] EXCEPT
             !.words = SelectSeq(@, LAMBDA w : w # <<"v", "e", "r", "y">>)]
     ELSE WEAK_WORDS[k]]

RuleSets == {WEAK_WORDS, WithVagueX, WithoutVery}

LifecycleTexts ==
  {<<"x">>, <<"x", " ", "v", "e", "r", "y">>,
   <<"v", "e", "r", "y", " ", "s", "t", "u", "f", "f", " ", "x">>,
   <<"Q", "u", "i", "t", "e">>, <<"v", "e", "r", "y">>,
   <<"s", "t", "u", "f", "f", " ", "x">>, <<"x", " ", "x">>,
   <<"k", "i", "n", "d", " ", "o", "f", " ", "x">>}

InitLifecycle ==
  /\ text \in LifecycleTexts
  /\ index = 0
  /\ RewriterIdle
  /\ op = "none"
  /\ ret = NULL
  /\ DetectorIdle
  /\ TaggerIdle /\ FlagIdle /\ RulesAsConfigured /\ TopicsEmpty
  /\ args = NoArguments
  /\ ClientIdle /\ EditorFresh

\* the program edits the exported WEAK_WORDS object
ChangeRules ==
  \E rules \in RuleSets \ {ruleSet} :
    /\ ruleSet' = rules
    /\ rulesChanged' = (rulesChanged \/ ~Compiles(weakWordPatterns))
    /\ UNCHANGED <<text, index, target, replacement, original, op, ret>>
    /\ UNCHANGED <<weakWordPatterns, compilations, queryWord, args, flagArgs, topicVars>>
    /\ UNCHANGED <<clientVars, editorVars>>

NextLifecycle ==
  \/ DetectWeakWordsCall
  \/ ResetWeakWordPatternsCall
  \/ ChangeRules

SpecLifecycle == InitLifecycle /\ [][NextLifecycle]_vars


(***************************************************************************)
(* Specification of the POS tagger: detectPOS on words that end in -ly or  *)
(* -ing, words of the closed-class tables, words with the suffixes of      *)
(* POS_RULES, capitalized, short and other words, in several casings       *)
(***************************************************************************)
POSWords ==
  {<<"q", "u", "i", "c", "k", "l", "y">>, <<"f", "l", "y">>,
   <<"o", "n", "l", "y">>, <<"O", "N", "L", "Y">>,
   <<"F", "a", "m", "i", "l", "y">>, <<"e", "a", "r", "l", "y">>,
   <<"b", "e", "i", "n", "g">>, <<"k", "i", "n", "g">>,
   <<"b", "r", "i", "n", "g">>, <<"r", "u", "n", "n", "i", "n", "g">>,
   <<"I", "N", "G">>, <<"S", "i", "n", "g">>, <<"c", "a", "n">>,
   <<"W", "o", "u", "l", "d">>, <<"m", "u", "s", "t">>,
   <<"s", "h", "a", "l", "l">>, <<"w", "e", "n", "t">>,
   <<"w", "r", "i", "t", "t", "e", "n">>, <<"b", "e", "e", "n">>,
   <<"i", "s">>, <<"W", "a", "s">>, <<"b", "o", "u", "g", "h", "t">>,
   <<"h", "e", "r">>, <<"t", "h", "a", "t">>, <<"t", "h", "i", "s">>,
   <<"I">>, <<"h", "e">>, <<"T", "h", "e", "y">>, <<"t", "h", "e">>, <<"a">>,
   <<"a", "n">>, <<"s", "o", "m", "e">>, <<"e", "v", "e", "r", "y">>,
   <<"f", "o", "r">>, <<"u", "p">>, <<"i", "n">>, <<"t", "o">>,
   <<"W", "i", "t", "h">>, <<"a", "n", "d">>, <<"b", "u", "t">>,
   <<"s", "o">>, <<"b", "e", "c", "a", "u", "s", "e">>,
   <<"v", "e", "r", "y">>, <<"n", "o", "w">>, <<"o", "f", "t", "e", "n">>,
   <<"n", "e", "v", "e", "r">>, <<"w", "e", "l", "l">>,
   <<"t", "o", "w", "a", "r", "d">>, <<"t", "o", "w", "a", "r", "d", "s">>,
   <<"c", "l", "o", "c", "k", "w", "i", "s", "e">>,
   <<"w", "a", "l", "k", "e", "d">>, <<"r", "e", "a", "l", "i", "z", "e">>,
   <<"n", "a", "t", "i", "o", "n">>,
   <<"m", "o", "v", "e", "m", "e", "n", "t">>,
   <<"t", "e", "a", "c", "h", "e", "r">>, <<"a", "c", "t", "o", "r">>,
   <<"c", "a", "t", "s">>, <<"f", "a", "m", "o", "u", "s">>,
   <<"h", "e", "l", "p", "f", "u", "l">>, <<"m", "a", "g", "i", "c">>,
   <<"h", "a", "p", "p", "y">>, <<"M", "e", "x", "i", "c", "a", "n">>,
   <<"o", "c", "e", "a", "n">>, <<"g", "l", "o", "b", "a", "l">>,
   <<"L", "o", "n", "d", "o", "n">>, <<"A", "b">>, <<"N", "A", "S", "A">>,
   <<"U", "S", "A">>, <<"B", "o", "b">>, <<"1", "a", "b", "2">>,
   <<"x", "y", "z">>, <<"q", "r", "x", "t">>, <<"x">>, <<"Q">>, <<"Z", "q">>,
   <<"d", "a", "t", "a">>, <<"K", "q", "7">>, <<"4", "2">>,
   <<"a", "b", "-", "c">>,
   <<"y", "e", "t">>, <<"b", "a", "c", "k", "w", "a", "r", "d">>,
   <<"u", "p", "w", "a", "r", "d", "s">>}

InitPOS ==
  /\ queryWord \in POSWords
  /\ text = <<>>
  /\ index = 0
  /\ RewriterIdle
  /\ op = "none"
  /\ ret = NULL
  /\ DetectorIdle
  /\ FlagIdle /\ RulesAsConfigured /\ TopicsEmpty
  /\ args = NoArguments
  /\ ClientIdle /\ EditorFresh

NextPOS == DetectPOSCall

SpecPOS == InitPOS /\ [][NextPOS]_vars


(***************************************************************************)
(* Specification of the topic cache: getCachedTopics on a few documents,   *)
(* two of them with the same fingerprint, and resetTopicExtraction         *)
(***************************************************************************)
Documents ==
  {<<>>,
   <<"a", "l", "p", "h", "a">>,
   <<"b", "e", "t", "a", " ", "a", "b", "c">>,
   <<"d", "e", "l", "t", "a">>,
   <<"v", "e", "r", "y", " ", "o", "d", "d">>,
   <<"g", "a", "m", "m", "a", " ", "g", "a", "m", "m", "a", " ", "o", "n", "e">>,
   <<"g", "a", "m", "m", "a", " ", "g", "a", "m", "m", "a", " ", "t", "w", "o">>}

TopicCounts == {1, 6}

InitCache ==
  /\ text = <<>>
  /\ queryWord = <<>>
  /\ index = 0
  /\ RewriterIdle
  /\ op = "none"
  /\ ret = NULL
  /\ DetectorIdle
  /\ FlagIdle /\ RulesAsConfigured /\ TopicsEmpty
  /\ args = NoArguments
  /\ ClientIdle /\ EditorFresh

\* the fingerprints in the order of their last use, the oldest first
Used(log, hash) == SelectSeq(log, LAMBDA h : h # hash) \o <<hash>>

GetCachedTopicsOf(documents, algorithms) ==
  \E document \in documents, n \in TopicCounts, algorithm \in algorithms :
    \E r \in {getCachedTopics(document, n, algorithm, termFrequencyCache,
                              documentFrequency, totalDocuments)} :
      /\ text' = document
      /\ op' = "getCachedTopics"
      /\ ret' = r.outcome
      /\ termFrequencyCache' = r.cache
      /\ documentFrequency' = r.df
      /\ totalDocuments' = r.total
      /\ useLog' = Used(useLog, createTextHash(document))
      /\ args' = [count |-> n, algorithm |-> algorithm]
      /\ UNCHANGED <<index, target, replacement, original, weakWordPatterns>>
      /\ UNCHANGED <<queryWord, clientVars, editorVars, flagArgs, rulesVars>>

\* app.js calls getCachedTopics(text, count, 'frequency')
GetCachedTopicsCall == GetCachedTopicsOf(Documents, {"frequency"})

\* a reset that clears the statistics and leaves the cache
ResetStatisticsOnly ==
  /\ documentFrequency' = <<>>
  /\ totalDocuments' = 0
  /\ op' = "resetTopicExtraction"
  /\ ret' = NULL
  /\ UNCHANGED <<text, index, target, replacement, original, weakWordPatterns>>
  /\ UNCHANGED <<queryWord, args, flagArgs, rulesVars, termFrequencyCache, useLog>>
  /\ UNCHANGED <<clientVars, editorVars>>


ResetTopicExtractionCall ==
  /\ termFrequencyCache' = <<>>
  /\ documentFrequency' = <<>>
  /\ totalDocuments' = 0
  /\ useLog' = <<>>
  /\ op' = "resetTopicExtraction"
  /\ ret' = NULL
  /\ UNCHANGED <<text, index, target, replacement, original, weakWordPatterns>>
  /\ UNCHANGED <<queryWord, args, clientVars, editorVars, flagArgs, rulesVars>>

NextCache == GetCachedTopicsCall \/ ResetTopicExtractionCall

SpecCache == InitCache /\ [][NextCache]_vars

(***************************************************************************)
(* Specification of the corpus statistics: updateDocumentFrequency on      *)
(* documents wide enough to push the table over its limit, on documents    *)
(* with repeated, short and stopword terms, and resetTopicExtraction       *)
(***************************************************************************)
WideWidth == 11
MaxDocuments == 4

TermLetters == <<"a", "b", "c", "d", "e", "f", "g", "h", "i", "j", "k", "l", "m", "n">>

RECURSIVE TermsFrom(_, _)
\* the terms "k<c><letter>" for the letters from the j-th on, space-separated
TermsFrom(c, j) ==
  IF j > WideWidth THEN <<>>
  ELSE <<"k", c, TermLetters[j]>> \o (IF j < WideWidth THEN <<" ">> ELSE <<>>)
         \o TermsFrom(c, j + 1)

WideDocuments == {TermsFrom(c, 1) : c \in {"a", "b", "c", "d"}}

CorpusDocuments ==
  WideDocuments \cup
  {<<>>,
   <<"t", "h", "e", " ", "a", "n", "d">>,
   <<"k", "a", "a", " ", "K", "a", "a", " ", "k", "a", "b">>,
   <<"k", "a", "a", " ", "z", "z", " ", "k", "b", "a", " ", "o", "f">>}

InitCorpus ==
  /\ text = <<>>
  /\ queryWord = <<>>
  /\ index = 0
  /\ RewriterIdle
  /\ op = "none"
  /\ ret = NULL
  /\ DetectorIdle
  /\ FlagIdle /\ RulesAsConfigured /\ TopicsEmpty
  /\ args = NoArguments
  /\ ClientIdle /\ EditorFresh

UpdateDocumentFrequencyOf(documents) ==
  /\ totalDocuments < MaxDocuments
  /\ \E document \in documents :
       \E r \in {updateDocumentFrequency(document, documentFrequency, totalDocuments)} :
         /\ text' = document
         /\ op' = "updateDocumentFrequency"
         /\ ret' = NULL
         /\ documentFrequency' = r.df
         /\ totalDocuments' = r.total
         /\ args' = NoArguments
         /\ UNCHANGED <<index, target, replacement, original, weakWordPatterns>>
         /\ UNCHANGED <<queryWord, flagArgs, rulesVars, termFrequencyCache, useLog>>
         /\ UNCHANGED <<clientVars, editorVars>>

UpdateDocumentFrequencyCall == UpdateDocumentFrequencyOf(CorpusDocuments)

NextCorpus == UpdateDocumentFrequencyCall \/ ResetTopicExtractionCall

SpecCorpus == InitCorpus /\ [][NextCorpus]_vars


(***************************************************************************)
(* Specification of keyword extraction over a growing corpus:              *)
(* extractKeywords with either algorithm, with and without updateStats,    *)
(* on documents with equally frequent terms, updateDocumentFrequency and   *)
(* resetTopicExtraction                                                    *)
(***************************************************************************)
KeywordDocuments ==
  {<<"k", "a", "b", " ", "k", "a", "a", " ", "K", "A", "B", " ", "k", "a", "a", " ",
     "k", "a", "c", "d">>,
   <<"k", "a", "a", " ", "t", "h", "e", " ", "z", "z", " ", "k", "a", "c", "d">>,
   <<"t", "h", "e", " ", "a", "n", "d">>,
   <<"k", "a", "d", " ", "k", "a", "d", " ", "k", "a", "b">>}

KeywordOptions ==
  {DefaultOptions,
   [count |-> 1, minLength |-> 4, algorithm |-> "frequency", updateStats |-> TRUE],
   [count |-> 6, minLength |-> 3, algorithm |-> "tfidf", updateStats |-> TRUE],
   [count |-> 2, minLength |-> 4, algorithm |-> "tfidf", updateStats |-> TRUE],
   [count |-> 1, minLength |-> 3, algorithm |-> "tfidf", updateStats |-> FALSE],
   [count |-> 6, minLength |-> 4, algorithm |-> "tfidf", updateStats |-> FALSE]}

InitKeywords ==
  /\ text = <<>>
  /\ queryWord = <<>>
  /\ index = 0
  /\ RewriterIdle
  /\ op = "none"
  /\ ret = NULL
  /\ DetectorIdle
  /\ FlagIdle /\ RulesAsConfigured /\ TopicsEmpty
  /\ args = NoArguments
  /\ ClientIdle /\ EditorFresh

ExtractKeywordsOn(documents, optionSet) ==
  \E document \in documents, options \in optionSet :
    \E r \in {extractKeywords(document, options, documentFrequency, totalDocuments)} :
      /\ text' = document
      /\ op' = "extractKeywords"
      /\ ret' = r.keywords
      /\ documentFrequency' = r.df
      /\ totalDocuments' = r.total
      /\ args' = options
      /\ UNCHANGED <<index, target, replacement, original, weakWordPatterns>>
      /\ UNCHANGED <<queryWord, flagArgs, rulesVars, termFrequencyCache, useLog>>
      /\ UNCHANGED <<clientVars, editorVars>>

ExtractKeywordsOfCall == ExtractKeywordsOn(KeywordDocuments, KeywordOptions)

NextKeywords ==
  \/ ExtractKeywordsOfCall
  \/ UpdateDocumentFrequencyOf(KeywordDocuments)
  \/ ResetTopicExtractionCall

SpecKeywords == InitKeywords /\ [][NextKeywords]_vars


(***************************************************************************)
(* Specification of resetTopicExtraction over a filled cache and a filled  *)
(* corpus: getCachedTopics with either algorithm, updateDocumentFrequency  *)
(* and resetTopicExtraction                                                *)
(***************************************************************************)
TopicDocuments ==
  {<<"k", "a", "a", " ", "t", "h", "e", " ", "z", "z", " ", "k", "a", "c", "d">>,
   <<"k", "a", "d", " ", "k", "a", "d", " ", "k", "a", "b">>,
   <<"t", "h", "e", " ", "a", "n", "d">>}

InitTopics ==
  /\ text = <<>>
  /\ queryWord = <<>>
  /\ index = 0
  /\ RewriterIdle
  /\ op = "none"
  /\ ret = NULL
  /\ DetectorIdle
  /\ FlagIdle /\ RulesAsConfigured /\ TopicsEmpty
  /\ args = NoArguments
  /\ ClientIdle /\ EditorFresh

NextTopics ==
  \/ GetCachedTopicsOf(TopicDocuments, {"frequency", "tfidf"})
  \/ UpdateDocumentFrequencyOf(TopicDocuments)
  \/ ResetTopicExtractionCall

SpecTopics == InitTopics /\ [][NextTopics]_vars


(***************************************************************************)
(* API client (utils/apiClient.js; DEFAULT_SETTINGS.api from               *)
(* config/settings.js, src/unnamed/part_000)                               *)
(*                                                                         *)
(* A promise is a record: its state, the array it resolved with and the    *)
(* ApiErrorType it rejected with.  A request is one queryDatamuse call:    *)
(* where its makeRequest stands (awaiting fetch, awaiting response.json(), *)
(* asleep before a retry, done), whether its controller was aborted, and   *)
(* the promises of makeRequest and of queryDatamuse.  Each step runs the   *)
(* code from one await to the next, as the event loop does.                *)
(***************************************************************************)
maxRetries == 3
retryDelays == <<1000, 2000, 4000>>
\* api.maxResults, 80 in the settings
maxResults == 3
\* the queryDatamuse calls of a behaviour
MaxRequests == 3

Pending == [state |-> "pending", value |-> <<>>, type |-> ""]
Resolved(v) == [state |-> "resolved", value |-> v, type |-> ""]
Rejected(type) == [state |-> "rejected", value |-> <<>>, type |-> type]

\* what the service holds for each kind of query: word '' stands for an
\* item without a word, score 0 for an item without a score
DataFor(params) ==
  CASE params = "rel_syn" ->
         <<[word |-> <<"b", "i", "g">>, score |-> 50],
           [word |-> <<"L", "a", "r", "g", "e">>, score |-> 90],
           [word |-> <<>>, score |-> 95]>>
    [] params = "ml" ->
         <<[word |-> <<"l", "a", "r", "g", "e">>, score |-> 70],
           [word |-> <<"h", "u", "g", "e">>, score |-> 60],
           [word |-> <<"v", "a", "s", "t">>, score |-> 0],
           [word |-> <<"t", "a", "l", "l">>, score |-> 60]>>
    [] OTHER ->
         <<[word |-> <<"b", "i", "g">>, score |-> 9],
           [word |-> <<"b", "i", "g", "g", "e", "r">>, score |-> 5]>>

\* how an awaited fetch can settle, and an awaited response.json()
FetchOutcomes == {"ok", "status429", "status500", "networkError", "timeout"}
BodyOutcomes == {"array", "object", "invalid"}

\* retryDelays[attempt] || retryDelays[retryDelays.length - 1]
RetryDelay(attempt) ==
  IF attempt < Len(retryDelays) /\ retryDelays[attempt + 1] # 0
  THEN retryDelays[attempt + 1]
  ELSE retryDelays[Len(retryDelays)]

\* makeRequest(endpoint, params, controller) up to its await of fetch
NewRequest(token, params) ==
  [token |-> token, params |-> params, attempt |-> 0, phase |-> "fetch", aborted |-> FALSE,
   fetches |-> 1, delay |-> 0, waited |-> <<>>, lateFetch |-> FALSE,
   refused |-> FALSE, timeouts |-> 0, made |-> Pending, queried |-> Pending]

\* the catch block of makeRequest for an error that is no AbortError and has
\* no 'timeout' in its message: sleep and retry while attempts remain, else
\* throw the error, an ApiError of the given type
Caught(r, type) ==
  IF r.attempt < maxRetries
  THEN [r EXCEPT !.phase = "sleep", !.delay = RetryDelay(r.attempt)]
  ELSE [r EXCEPT !.phase = "done", !.made = Rejected(type)]

\* makeRequest from the settling of fetch to the next await: an aborted
\* signal, the caller's or the timeout's, rejects fetch with an AbortError
FetchSettled(r, outcome) ==
  IF r.aborted \/ outcome = "timeout"
  THEN [r EXCEPT !.phase = "done", !.made = Rejected("ABORT_ERROR")]
  ELSE CASE outcome = "ok" -> [r EXCEPT !.phase = "json"]
         [] outcome = "status429" ->
              IF r.attempt < maxRetries
              THEN [r EXCEPT !.phase = "sleep", !.delay = RetryDelay(r.attempt)]
              ELSE Caught(r, "RATE_LIMIT_ERROR")
         [] outcome = "status500" -> Caught(r, "NETWORK_ERROR")
         [] OTHER -> Caught(r, "UNKNOWN_ERROR")

\* makeRequest from the settling of response.json() on: a body that cannot
\* be read, for bad JSON or for an abort, is an ApiError of type PARSE
BodySettled(r, outcome) ==
  CASE outcome = "array" ->
         [r EXCEPT !.phase = "done", !.made = Resolved(DataFor(r.params))]
    [] outcome = "object" -> [r EXCEPT !.phase = "done", !.made = Resolved(<<>>)]
    [] OTHER -> Caught(r, "PARSE_ERROR")

\* makeRequest(endpoint, params, controller, attempt + 1) after sleep(delay),
\* up to its await of fetch
SleepEnded(r) ==
  [r EXCEPT !.attempt = @ + 1, !.phase = "fetch", !.fetches = @ + 1,
            !.waited = Append(@, r.delay), !.lateFetch = @ \/ r.aborted]

\* queryDatamuse after its await of makeRequest
Queried(r, token, latest) ==
  IF r.made.state = "resolved" /\ token # latest
  THEN Rejected("ABORT_ERROR")
  ELSE r.made

\* the place among the remembered requests of the one with the token
Place(rs, token) == CHOOSE i \in 1..Len(rs) : rs[i].token = token

\* abortCurrentRequest()
Aborted(client) ==
  IF client.controller # 0
  THEN [client EXCEPT
          !.requests[Place(client.requests, client.controller)].aborted = TRUE,
          !.controller = 0]
  ELSE client

\* queryDatamuse(params) up to its await of makeRequest
queryDatamuse(client, params) ==
  LET a == Aborted(client)
  IN  [a EXCEPT !.controller = a.token + 1,
                !.token = a.token + 1,
                !.requests = Append(@, NewRequest(a.token + 1, params))]

RECURSIVE UniqueFrom(_, _, _, _)
\* combined.filter(...): the items with a word not seen before in any casing
UniqueFrom(items, k, seen, unique) ==
  IF k > Len(items) THEN unique
  ELSE IF items[k].word = <<>> \/ toLowerCase(items[k].word) \in seen
       THEN UniqueFrom(items, k + 1, seen, unique)
       ELSE UniqueFrom(items, k + 1, seen \cup {toLowerCase(items[k].word)},
                       Append(unique, items[k]))

\* lookupWord after Promise.all: results.flat(), deduplicated, sorted by
\* descending score, cut to maxResults
Combined(combined) ==
  slice(sortByScore(UniqueFrom(combined, 1, {}, <<>>)), 0, maxResults)

RECURSIVE Flat(_, _, _)
\* results.flat() for the requests of the given tokens
Flat(rs, tokens, k) ==
  IF k > Len(tokens) THEN <<>>
  ELSE rs[Place(rs, tokens[k])].queried.value \o Flat(rs, tokens, k + 1)

\* lookupWord after a request settled: Promise.all rejects with the first
\* rejection and resolves when every request has resolved
LookupAfter(lookup, rs) ==
  LET tokens == lookup.tokens
      rejected == {k \in 1..Len(tokens) :
                     rs[Place(rs, tokens[k])].queried.state = "rejected"}
  IN  IF lookup.outcome.state # "pending" THEN lookup
      ELSE IF rejected # {}
      THEN [lookup EXCEPT !.outcome =
              Rejected(rs[Place(rs, tokens[CHOOSE k \in rejected : TRUE])].queried.type)]
      ELSE IF \A k \in 1..Len(tokens) :
                rs[Place(rs, tokens[k])].queried.state = "resolved"
      THEN [lookup EXCEPT !.outcome = Resolved(Combined(Flat(rs, tokens, 1)))]
      ELSE lookup

(***************************************************************************)
(* Specification of the API client: lookupWord for words and fragments,    *)
(* abortCurrentRequest, and the settling of fetches, bodies and sleeps     *)
(***************************************************************************)
InitClient ==
  /\ text = <<>>
  /\ queryWord = <<>>
  /\ index = 0
  /\ RewriterIdle
  /\ op = "none"
  /\ ret = NULL
  /\ DetectorIdle
  /\ FlagIdle /\ RulesAsConfigured /\ TopicsEmpty
  /\ args = NoArguments
  /\ ClientIdle /\ EditorFresh

\* everything but the client's state and the last operation
ClientFrame ==
  /\ UNCHANGED <<text, index, target, replacement, original, weakWordPatterns>>
  /\ UNCHANGED <<queryWord, args, flagArgs, rulesVars, topicVars, editorVars>>
  /\ ret' = NULL

\* the client as the code sees it between two steps
Client ==
  [controller |-> currentController, token |-> requestToken,
   requests |-> requests, lookups |-> lookups, panel |-> resultsPanel]

\* performLookup after its await of lookupWord: renderResults shows the
\* results, or the empty message when there are none; the catch block shows
\* an error, and returns at once on an ABORT_ERROR
Shown(panel, outcome) ==
  IF outcome.state = "resolved"
  THEN (IF outcome.value = <<>> THEN "empty" ELSE "results")
  ELSE IF outcome.type = "ABORT_ERROR" THEN panel
  ELSE "error"

RECURSIVE PanelAfter(_, _, _, _)
\* the panel after the lookups that settled in a step, taken in their order
PanelAfter(panel, before, after, k) ==
  IF k > Len(before) THEN panel
  ELSE IF before[k].outcome.state = "pending" /\ after[k].outcome.state # "pending"
       THEN PanelAfter(Shown(panel, after[k].outcome), before, after, k + 1)
       ELSE PanelAfter(panel, before, after, k + 1)

\* the request of the token goes on as r: when its makeRequest is done,
\* queryDatamuse settles and lookupWord may
Continued(client, token, r) ==
  LET done == r.phase = "done"
      rs == [client.requests EXCEPT ![Place(client.requests, token)] =
               IF done THEN [r EXCEPT !.queried = Queried(r, token, client.token)]
               ELSE r]
      settled == [i \in 1..Len(client.lookups) |->
                    LookupAfter(client.lookups[i], rs)]
  IN  [client EXCEPT
         !.requests = rs,
         !.controller = IF done /\ token = client.token THEN 0 ELSE @,
         !.lookups = settled,
         !.panel = PanelAfter(@, client.lookups, settled, 1)]

\* controller.abort() rejects what the request awaits of the network: a
\* pending fetch with an AbortError, a pending response.json() likewise
AfterAbort(r) ==
  IF r.phase = "fetch" THEN FetchSettled(r, "ok")
  ELSE IF r.phase = "json" THEN BodySettled(r, "aborted")
  ELSE r

RECURSIVE Drained(_, _)
\* the reactions to those rejections, run in the order of the requests
\* before the step ends
Drained(client, k) ==
  IF k > Len(client.requests) THEN client
  ELSE LET r == client.requests[k]
       IN  IF r.aborted /\ r.phase \in {"fetch", "json"}
           THEN Drained(Continued(client, r.token, AfterAbort(r)), k + 1)
           ELSE Drained(client, k + 1)

\* a lookup is over when lookupWord has settled and each of its requests has
\* come to its end; the model forgets it, and them, when the next lookup starts
Over(lookup) ==
  /\ lookup.outcome.state # "pending"
  /\ \A k \in 1..Len(lookup.tokens) :
       requests[Place(requests, lookup.tokens[k])].phase = "done"

Remembered(lookup) == ~Over(lookup)

StillRunning(r) ==
  \E i \in 1..Len(lookups) :
    /\ ~Over(lookups[i])
    /\ \E k \in 1..Len(lookups[i].tokens) : lookups[i].tokens[k] = r.token

\* the client's state after the step is the given one
Becomes(client) ==
  /\ currentController' = client.controller
  /\ requestToken' = client.token
  /\ requests' = client.requests
  /\ lookups' = client.lookups
  /\ resultsPanel' = client.panel

\* performLookup(query, isFragment): showLoading(), and lookupWord(query,
\* isFragment) up to its await of Promise.all
LookupWordCall ==
  /\ \E isFragment \in BOOLEAN :
       LET before == [Client EXCEPT !.requests = SelectSeq(requests, StillRunning),
                                   !.lookups = SelectSeq(lookups, Remembered)]
           queried == IF isFragment THEN queryDatamuse(before, "sp")
                      ELSE queryDatamuse(queryDatamuse(before, "rel_syn"), "ml")
           awaiting == [queried EXCEPT !.lookups =
                          Append(@, [isFragment |-> isFragment,
                                     tokens |-> IF isFragment THEN <<queried.token>>
                                                ELSE <<queried.token - 1, queried.token>>,
                                     outcome |-> Pending]),
                                       !.panel = "loading"]
       IN  /\ queried.token <= MaxRequests
           /\ Becomes(Drained(awaiting, 1))
  /\ op' = "lookupWord"
  /\ ClientFrame

AbortCurrentRequestCall ==
  /\ currentController # 0
  /\ Becomes(Drained(Aborted(Client), 1))
  /\ op' = "abortCurrentRequest"
  /\ ClientFrame

\* a fetch in flight settles, by a response, a network error or the timeout
FetchSettles ==
  /\ \E i \in 1..Len(requests), outcome \in FetchOutcomes :
       /\ requests[i].phase = "fetch"
       /\ Becomes(Continued(Client, requests[i].token,
                            [FetchSettled(requests[i], outcome) EXCEPT
                               !.refused = @ \/ outcome # "ok",
                               !.timeouts = IF outcome = "timeout" THEN @ + 1
                                            ELSE @]))
  /\ op' = "fetch settles"
  /\ ClientFrame

\* the body of a response has been read
BodySettles ==
  /\ \E i \in 1..Len(requests), outcome \in BodyOutcomes :
       /\ requests[i].phase = "json"
       /\ Becomes(Continued(Client, requests[i].token,
                            [BodySettled(requests[i], outcome) EXCEPT
                               !.refused = @ \/ outcome = "invalid"]))
  /\ op' = "body settles"
  /\ ClientFrame

\* the timer of a sleep fires; the fetch of a request aborted meanwhile is
\* rejected at once
SleepEnds ==
  /\ \E i \in 1..Len(requests) :
       /\ requests[i].phase = "sleep"
       /\ Becomes(Drained(Continued(Client, requests[i].token,
                                    SleepEnded(requests[i])), 1))
  /\ op' = "sleep ends"
  /\ ClientFrame

NextClient ==
  \/ LookupWordCall
  \/ AbortCurrentRequestCall
  \/ FetchSettles
  \/ BodySettles
  \/ SleepEnds

SpecClient == InitClient /\ [][NextClient]_vars


(***************************************************************************)
(* EditorController (src/unnamed/part_002; editor.maxHistory from          *)
(* config/settings.js)                                                     *)
(***************************************************************************)
\* editor.maxHistory, 100 in the settings
maxHistory == 3
\* the longest text insertText is let to produce
MaxEditorLen == 3

\* this.editor.value = v
WithValue(e, v) == IF v = e.value THEN e ELSE Loaded(v)

\* setCaretPosition(position)
WithCaret(e, position) ==
  [e EXCEPT !.selectionStart = Min({position, Len(e.value)}),
            !.selectionEnd = Min({position, Len(e.value)})]

\* a history that keeps every state
addToHistoryUnbounded(h, state) == Append(h, state)

\* addToHistory(state)
addToHistory(h, state) ==
  LET pushed == Append(h, state)
  IN  IF Len(pushed) > maxHistory THEN Tail(pushed) ELSE pushed

\* canUndo()
canUndo(h) == Len(h) > 0

\* setContent(text, addToHistory): the editor and the history after it
setContent(e, h, t, add) ==
  [editor |-> WithValue(e, t),
   history |-> IF add THEN addToHistory(h, e.value) ELSE h]

\* insertText(text)
insertText(e, h, t) ==
  LET before == slice(e.value, 0, e.selectionStart)
      after == sliceFrom(e.value, e.selectionEnd)
  IN  [editor |-> WithCaret(WithValue(e, before \o t \o after),
                            e.selectionStart + Len(t)),
       history |-> addToHistory(h, e.value)]

\* replaceWord(target, replacement, global)
replaceWord(e, h, tg, repl, global) ==
  LET pushed == addToHistory(h, e.value)
      fragment == getWordFragment(e.value, e.selectionStart)
      cased == preserveCase(fragment.word, repl)
  IN  IF ~global /\ fragment.word # <<>>
         /\ toLowerCase(fragment.word) = toLowerCase(tg)
      THEN [editor |-> WithCaret(WithValue(e, slice(e.value, 0, fragment.start)
                                              \o cased
                                              \o sliceFrom(e.value, fragment.end)),
                                 fragment.start + Len(cased)),
            history |-> pushed]
      ELSE setContent(e, pushed, replaceWordGlobally(e.value, tg, repl), FALSE)

\* an undo that goes back to the oldest state of the history
undoOldest(e, h) ==
  IF Len(h) = 0 THEN [value |-> FALSE, editor |-> e, history |-> h]
  ELSE [value |-> TRUE, editor |-> WithValue(e, h[1]), history |-> Tail(h)]


\* undo(): the value returned, the editor and the history
undo(e, h) ==
  IF ~canUndo(h) THEN [value |-> FALSE, editor |-> e, history |-> h]
  ELSE [value |-> TRUE, editor |-> WithValue(e, h[Len(h)]),
        history |-> SubSeq(h, 1, Len(h) - 1)]

(***************************************************************************)
(* Specification of the editor: setContent, insertText, replaceWord, undo, *)
(* clearHistory and canUndo, and the user moving the caret                 *)
(***************************************************************************)
EditorTexts == {<<>>, <<"A">>}

InitEditor ==
  /\ text = <<>>
  /\ queryWord = <<>>
  /\ index = 0
  /\ RewriterIdle
  /\ op = "none"
  /\ ret = NULL
  /\ DetectorIdle
  /\ FlagIdle /\ RulesAsConfigured /\ TopicsEmpty
  /\ args = NoArguments
  /\ ClientIdle /\ EditorFresh

\* everything but the editor, the last operation and its arguments
EditorFrame ==
  /\ UNCHANGED <<text, index, target, replacement, original, weakWordPatterns>>
  /\ UNCHANGED <<queryWord, flagArgs, rulesVars, topicVars, clientVars>>

SetContentCall ==
  \E t \in EditorTexts, add \in BOOLEAN :
    \E r \in {setContent(editor, history, t, add)} :
      /\ editor' = r.editor
      /\ history' = r.history
      /\ op' = "setContent"
      /\ args' = [count |-> 0, addToHistory |-> add]
      /\ ret' = NULL
      /\ EditorFrame

InsertTextCall ==
  \E t \in {<<"b">>} :
    /\ Len(editor.value) + Len(t) <= MaxEditorLen
    /\ \E r \in {insertText(editor, history, t)} :
         /\ editor' = r.editor
         /\ history' = r.history
         /\ op' = "insertText"
         /\ args' = [count |-> 0, addToHistory |-> TRUE]
         /\ ret' = NULL
         /\ EditorFrame

ReplaceWordCall ==
  \E global \in BOOLEAN :
    \E r \in {replaceWord(editor, history, <<"a">>, <<"b">>, global)} :
      /\ editor' = r.editor
      /\ history' = r.history
      /\ op' = "replaceWord"
      /\ args' = [count |-> 0, addToHistory |-> TRUE]
      /\ ret' = NULL
      /\ EditorFrame

UndoCall ==
  \E r \in {undo(editor, history)} :
    /\ editor' = r.editor
    /\ history' = r.history
    /\ op' = "undo"
    /\ args' = NoArguments
    /\ ret' = Returns(r.value)
    /\ EditorFrame

ClearHistoryCall ==
  /\ history' = <<>>
  /\ op' = "clearHistory"
  /\ args' = NoArguments
  /\ ret' = NULL
  /\ UNCHANGED editor
  /\ EditorFrame

CanUndoCall ==
  /\ op' = "canUndo"
  /\ args' = NoArguments
  /\ ret' = Returns(canUndo(history))
  /\ UNCHANGED <<editor, history>>
  /\ EditorFrame

\* the user puts the caret somewhere in the text
MoveCaret ==
  \E position \in 0..Len(editor.value) :
    /\ editor' = WithCaret(editor, position)
    /\ op' = "caret-move"
    /\ args' = NoArguments
    /\ ret' = NULL
    /\ UNCHANGED history
    /\ EditorFrame

NextEditor ==
  \/ SetContentCall
  \/ InsertTextCall
  \/ ReplaceWordCall
  \/ UndoCall
  \/ ClearHistoryCall
  \/ CanUndoCall
  \/ MoveCaret

SpecEditor == InitEditor /\ [][NextEditor]_vars


(***************************************************************************)
(* Specification: the matcher of weakWordDetector.js over rule sets that   *)
(* hold an entry that is not a pattern                                     *)
(***************************************************************************)
\* WEAK_WORDS after WEAK_WORDS.vague = 'stuff': a string where a list of words
\* is expected
WithVagueString ==
  [k \in 1..Len(WEAK_WORDS) |->
     IF WEAK_WORDS[k].category = "vague"
     THEN [category |-> "vague", value |-> <<"s", "t", "u", "f", "f">>]
     ELSE WEAK_WORDS[k]]

\* WEAK_WORDS after WEAK_WORDS.phrases.push('(kind of'): the source of a
\* pattern, and one that does not parse, where a RegExp is expected
WithStringPhrase ==
  [k \in 1..Len(WEAK_WORDS) |->
     IF WEAK_WORDS[k].category = "phrases"
     THEN [category |-> "phrases", words |-> WEAK_WORDS[k].words,
           strings |-> <<<<"(", "k", "i", "n", "d", " ", "o", "f">>>>]
     ELSE WEAK_WORDS[k]]

InvalidRuleSets == {WithVagueString, WithStringPhrase}

\* every entry of the rule set is a list of words or a list of RegExp objects
ValidRules(rules) ==
  /\ \A k \in 1..Len(rules) : IsArray(rules[k])
  /\ StringsOf(rules) = <<>>

\* the error the matcher is to raise on a rule that is no pattern
ConfigurationError == [thrown |-> TRUE, value |-> "ConfigurationError"]

\* detectWeakWords(text) over any patterns: pattern.lastIndex = 0 and
\* pattern.exec(text) throw a TypeError on a pattern that is a string
detectWeakWordsOrThrow(t, patterns) ==
  IF \E k \in 1..Len(patterns) : patterns[k].kind = "string" THEN TypeError
  ELSE Returns(detectWeakWords(t, patterns))

RulesTexts ==
  {<<"s", "t", "u", "f", "f">>, <<"v", "e", "r", "y">>,
   <<"k", "i", "n", "d", " ", "o", "f">>,
   <<"v", "e", "r", "y", " ", "s", "t", "u", "f", "f">>,
   <<"(", "k", "i", "n", "d", " ", "o", "f">>, <<"x">>,
   <<"S", "t", "u", "f", "f", " ", "x">>, <<"a", " ", "l", "o", "t">>}

InitRules ==
  /\ text \in RulesTexts
  /\ index = 0
  /\ RewriterIdle
  /\ op = "none"
  /\ ret = NULL
  /\ DetectorIdle
  /\ TaggerIdle /\ FlagIdle /\ RulesAsConfigured /\ TopicsEmpty
  /\ args = NoArguments
  /\ ClientIdle /\ EditorFresh

\* detectWeakWords(text), with what it throws
DetectWeakWordsOrThrowCall ==
  /\ UsesMatcher
  /\ op' = "detectWeakWords"
  /\ ret' = detectWeakWordsOrThrow(StringOf(text),
                                   getWeakWordPatterns(weakWordPatterns))
  /\ UNCHANGED <<text, index, target, replacement, original>>
  /\ UNCHANGED <<queryWord, args, clientVars, editorVars, flagArgs, topicVars>>

\* the configuration provider supplies another rule set
SupplyRules ==
  \E rules \in (InvalidRuleSets \cup {WEAK_WORDS}) \ {ruleSet} :
    /\ ruleSet' = rules
    /\ rulesChanged' = (rulesChanged \/ ~Compiles(weakWordPatterns))
    /\ UNCHANGED <<text, index, target, replacement, original, op, ret>>
    /\ UNCHANGED <<weakWordPatterns, compilations, queryWord, args, flagArgs, topicVars>>
    /\ UNCHANGED <<clientVars, editorVars>>

NextRules ==
  \/ DetectWeakWordsOrThrowCall
  \/ ResetWeakWordPatternsCall
  \/ SupplyRules

SpecRules == InitRules /\ [][NextRules]_vars


(***************************************************************************)
(* The display forms of the POS tagger: getSimplePOS and getFormattedPOS   *)
(* (src/unnamed/part_001)                                                  *)
(***************************************************************************)
\* posMapping, in the order it is written
posMapping ==
  <<[key |-> "verb", value |-> <<"v">>],
    [key |-> "verb (gerund)", value |-> <<"v", "-", "i", "n", "g">>],
    [key |-> "verb (past)", value |-> <<"v", "-", "e", "d">>],
    [key |-> "modal verb", value |-> <<"m", "o", "d", "a", "l">>],
    [key |-> "noun", value |-> <<"n">>],
    [key |-> "noun (plural)", value |-> <<"n", "-", "p", "l">>],
    [key |-> "proper noun", value |-> <<"n", "-", "p", "r", "o", "p">>],
    [key |-> "adjective", value |-> <<"a", "d", "j">>],
    [key |-> "adverb", value |-> <<"a", "d", "v">>],
    [key |-> "pronoun", value |-> <<"p", "r", "o", "n">>],
    [key |-> "preposition", value |-> <<"p", "r", "e", "p">>],
    [key |-> "conjunction", value |-> <<"c", "o", "n", "j">>],
    [key |-> "determiner", value |-> <<"d", "e", "t">>],
    [key |-> "function word", value |-> <<"f", "u", "n", "c">>]>>

\* the characters of a label that posMapping does not hold: detectPOS has
\* one such label
LabelText(pos) ==
  IF pos = "unknown" THEN <<"u", "n", "k", "n", "o", "w", "n">> ELSE <<>>

\* posMapping[result.pos] || result.pos
SimpleTag(pos) ==
  IF \E k \in 1..Len(posMapping) : posMapping[k].key = pos
  THEN MapGet(posMapping, pos)
  ELSE LabelText(pos)

\* getSimplePOS without the test of the confidence
getSimplePOSOfAnyResult(word) == SimpleTag(detectPOS(word).pos)

\* getSimplePOS(word)
getSimplePOS(word) ==
  LET result == detectPOS(word)
  IN  IF result.confidence = "none" THEN <<>> ELSE SimpleTag(result.pos)

\* { high: '', medium: '?', low: '??' }[result.confidence]
ConfidenceMarker(confidence) ==
  IF confidence = "high" THEN <<>>
  ELSE IF confidence = "medium" THEN <<"?">>
  ELSE <<"?", "?">>

\* the placeholder of a word without a tag, an em dash
DashPlaceholder == <<"--">>

\* getFormattedPOS(word, showConfidence)
getFormattedPOS(word, showConfidence) ==
  LET result == detectPOS(word)
  IN  IF result.confidence = "none" THEN DashPlaceholder
      ELSE getSimplePOS(word)
           \o (IF showConfidence THEN ConfidenceMarker(result.confidence) ELSE <<>>)

(***************************************************************************)
(* Specification of the display forms: detectPOS, getSimplePOS and         *)
(* getFormattedPOS on the words of the tagger and on the empty string      *)
(***************************************************************************)
InitTags ==
  /\ queryWord \in POSWords \cup {<<>>}
  /\ text = <<>>
  /\ index = 0
  /\ RewriterIdle
  /\ op = "none"
  /\ ret = NULL
  /\ DetectorIdle
  /\ FlagIdle /\ RulesAsConfigured /\ TopicsEmpty
  /\ args = NoArguments
  /\ ClientIdle /\ EditorFresh

\* what the tagger's calls leave alone
TagsFrame ==
  /\ UNCHANGED <<text, index, target, replacement, original, weakWordPatterns>>
  /\ UNCHANGED <<queryWord, flagArgs, rulesVars, topicVars>>
  /\ UNCHANGED <<clientVars, editorVars>>

GetSimplePOSCall ==
  /\ op' = "getSimplePOS"
  /\ ret' = getSimplePOS(queryWord)
  /\ args' = NoArguments
  /\ TagsFrame

GetFormattedPOSCall ==
  \E showConfidence \in BOOLEAN :
    /\ op' = "getFormattedPOS"
    /\ ret' = getFormattedPOS(queryWord, showConfidence)
    /\ args' = [count |-> 0, showConfidence |-> showConfidence]
    /\ TagsFrame

NextTags ==
  \/ DetectPOSCall
  \/ GetSimplePOSCall
  \/ GetFormattedPOSCall

SpecTags == InitTags /\ [][NextTags]_vars


(***************************************************************************)
(* analyzeTopics, getCorpusStats and the calls of the topic module made    *)
(* directly (src/unnamed/part_002)                                         *)
(***************************************************************************)
\* words.filter(w => !STOPWORDS.has(w) && w.length >= 3), as a Set
UniqueWords(words) ==
  {words[k] : k \in {j \in 1..Len(words) :
                       words[j] \notin STOPWORDS /\ Len(words[j]) >= 3}}

\* analyzeTopics(text) with the TF-IDF ranking left to count the text
analyzeTopicsCounting(t, df, total) ==
  LET Analysis(ranked) ==
        [outcome |-> Returns(ranked.keywords.value),
         df |-> ranked.df,
         total |-> ranked.total]
  IN  Once(Analysis, extractKeywordsByTFIDF(t, 10, 3, TRUE, df, total))


\* analyzeTopics(text): what it returns, and the corpus statistics after it
analyzeTopics(t, df, total) ==
  LET Analysis(ranked) ==
        LET tfidfKeywords == ranked.keywords.value
            words == matchKeywords(toLowerCase(t))
            uniqueWords == Cardinality(UniqueWords(words))
        IN  [outcome |->
               Returns([keywords |->
                          [byFrequency |-> extractKeywordsByFrequency(t, 10, 3).value,
                           byTFIDF |-> tfidfKeywords,
                           \* tfidfKeywords.length > 0 ? tfidfKeywords :
                           \* frequencyKeywords: which of the two lists it is
                           recommended |-> IF Len(tfidfKeywords) > 0
                                           THEN "byTFIDF" ELSE "byFrequency"],
                        statistics |->
                          [totalWords |-> Len(words),
                           uniqueWords |-> uniqueWords,
                           lexicalDiversity |->
                             IF Len(words) > 0 THEN Rat(uniqueWords, Len(words))
                             ELSE Num(0),
                           documentsInCorpus |-> total]]),
             df |-> ranked.df,
             total |-> ranked.total]
  IN  IF total > 0
      THEN Once(Analysis, extractKeywordsByTFIDF(t, 10, 3, FALSE, df, total))
      ELSE Analysis([keywords |-> Returns(<<>>), df |-> df, total |-> total])

\* getCorpusStats()
getCorpusStats(cache, df, total) ==
  LET common == slice(SortByValueFrom(df, 1, <<>>), 0, 10)
  IN  [totalDocuments |-> total,
       uniqueTerms |-> Len(df),
       cacheSize |-> Len(cache),
       mostCommonTerms |-> [k \in 1..Len(common) |->
                              [term |-> common[k].key,
                               frequency |-> common[k].value]]]

\* the documents of the calls below
QueryDocuments ==
  {<<"k", "a", "a", " ", "t", "h", "e", " ", "z", "z", " ", "k", "a", "c", "d">>,
   <<"k", "a", "d", " ", "k", "a", "d", " ", "k", "a", "b">>}

\* what a call of the topic module leaves alone, the cache apart
TopicFrame ==
  /\ UNCHANGED <<index, target, replacement, original, weakWordPatterns>>
  /\ UNCHANGED <<queryWord, flagArgs, rulesVars, clientVars, editorVars>>

GetTopKeywordsCall ==
  \E document \in QueryDocuments, n \in TopicCounts,
     algorithm \in {"frequency", "tfidf"} :
    \E r \in {getTopKeywords(document, n, algorithm, documentFrequency,
                             totalDocuments)} :
      /\ text' = document
      /\ op' = "getTopKeywords"
      /\ ret' = r.keywords
      /\ documentFrequency' = r.df
      /\ totalDocuments' = r.total
      /\ args' = [count |-> n, algorithm |-> algorithm]
      /\ UNCHANGED <<termFrequencyCache, useLog>>
      /\ TopicFrame

AnalyzeTopicsCall ==
  \E document \in QueryDocuments :
    \E r \in {analyzeTopics(document, documentFrequency, totalDocuments)} :
      /\ text' = document
      /\ op' = "analyzeTopics"
      /\ ret' = r.outcome
      /\ documentFrequency' = r.df
      /\ totalDocuments' = r.total
      /\ args' = NoArguments
      /\ UNCHANGED <<termFrequencyCache, useLog>>
      /\ TopicFrame

\* extractKeywordsByTFIDF(text, n, minLength, updateStats), called directly
ExtractKeywordsByTFIDFOn(documents) ==
  \E document \in documents, updateStats \in BOOLEAN :
    \E r \in {extractKeywordsByTFIDF(document, 6, 3, updateStats,
                                     documentFrequency, totalDocuments)} :
      /\ text' = document
      /\ op' = "extractKeywordsByTFIDF"
      /\ ret' = r.keywords
      /\ documentFrequency' = r.df
      /\ totalDocuments' = r.total
      /\ args' = [DefaultOptions EXCEPT !.algorithm = "tfidf",
                                        !.updateStats = updateStats]
      /\ UNCHANGED <<termFrequencyCache, useLog>>
      /\ TopicFrame

ExtractKeywordsByTFIDFCall == ExtractKeywordsByTFIDFOn(QueryDocuments)

(***************************************************************************)
(* Specification of the fallback to the frequency ranking: every way of    *)
(* asking for keywords, on a corpus that is empty until a document is      *)
(* counted directly                                                        *)
(***************************************************************************)
InitFallback ==
  /\ text = <<>>
  /\ queryWord = <<>>
  /\ index = 0
  /\ RewriterIdle
  /\ op = "none"
  /\ ret = NULL
  /\ DetectorIdle
  /\ FlagIdle /\ RulesAsConfigured /\ TopicsEmpty
  /\ args = NoArguments
  /\ ClientIdle /\ EditorFresh

FallbackOptions ==
  {DefaultOptions,
   [count |-> 6, minLength |-> 3, algorithm |-> "tfidf", updateStats |-> TRUE],
   [count |-> 1, minLength |-> 4, algorithm |-> "tfidf", updateStats |-> FALSE]}

NextFallback ==
  \/ ExtractKeywordsOn(QueryDocuments, FallbackOptions)
  \/ GetTopKeywordsCall
  \/ GetCachedTopicsOf(QueryDocuments, {"frequency", "tfidf"})
  \/ AnalyzeTopicsCall
  \/ UpdateDocumentFrequencyOf(QueryDocuments)
  \/ ExtractKeywordsByTFIDFCall
  \/ ResetTopicExtractionCall

SpecFallback == InitFallback /\ [][NextFallback]_vars


(***************************************************************************)
(* The client with every fetch, every reading of a body and every sleep    *)
(* coming to its end                                                       *)
(***************************************************************************)
SpecClientFair ==
  /\ SpecClient
  /\ WF_vars(FetchSettles)
  /\ WF_vars(BodySettles)
  /\ WF_vars(SleepEnds)


(***************************************************************************)
(* Specification of the corpus statistics under every call that counts     *)
(* documents: updateDocumentFrequency, extractKeywords and                  *)
(* extractKeywordsByTFIDF on documents wide enough to have the table cut,   *)
(* and resetTopicExtraction                                                 *)
(***************************************************************************)
InitStatistics ==
  /\ text = <<>>
  /\ queryWord = <<>>
  /\ index = 0
  /\ RewriterIdle
  /\ op = "none"
  /\ ret = NULL
  /\ DetectorIdle
  /\ FlagIdle /\ RulesAsConfigured /\ TopicsEmpty
  /\ args = NoArguments
  /\ ClientIdle /\ EditorFresh

\* a document whose terms are partly those of a wide one
NarrowDocument ==
  <<"k", "a", "a", " ", "z", "z", " ", "k", "b", "a", " ", "o", "f">>

StatisticsOptions ==
  {[count |-> 6, minLength |-> 3, algorithm |-> "tfidf", updateStats |-> TRUE],
   [count |-> 1, minLength |-> 4, algorithm |-> "tfidf", updateStats |-> FALSE]}

NextStatistics ==
  \/ UpdateDocumentFrequencyOf(WideDocuments \cup {NarrowDocument})
  \/ ExtractKeywordsOn({NarrowDocument}, StatisticsOptions)
  \/ ExtractKeywordsByTFIDFOn({NarrowDocument, TermsFrom("d", 1)})
  \/ ResetTopicExtractionCall

SpecStatistics == InitStatistics /\ [][NextStatistics]_vars


(***************************************************************************)
(* Specification of the calls that only read the corpus statistics and     *)
(* the topic cache, among the calls that write them                        *)
(***************************************************************************)
\* the terms asked of calculateIDF: two of the documents, one of none
QueryTerms == {<<"k", "a", "a">>, <<"k", "a", "d">>, <<"z", "z", "z">>}

CalculateIDFCall ==
  \E term \in QueryTerms :
    /\ op' = "calculateIDF"
    /\ ret' = calculateIDF(term, documentFrequency, totalDocuments)
    /\ args' = [term |-> term]
    /\ UNCHANGED <<text, topicVars>>
    /\ TopicFrame

CalculateTFIDFCall ==
  \E document \in QueryDocuments, minLength \in {3, 4} :
    /\ text' = document
    /\ op' = "calculateTFIDF"
    /\ ret' = calculateTFIDF(document, minLength, documentFrequency, totalDocuments)
    /\ args' = [DefaultOptions EXCEPT !.minLength = minLength]
    /\ UNCHANGED topicVars
    /\ TopicFrame

ExtractKeywordsByFrequencyCall ==
  \E document \in QueryDocuments, n \in TopicCounts :
    /\ text' = document
    /\ op' = "extractKeywordsByFrequency"
    /\ ret' = extractKeywordsByFrequency(document, n, 3)
    /\ args' = [DefaultOptions EXCEPT !.count = n]
    /\ UNCHANGED topicVars
    /\ TopicFrame

GetCorpusStatsCall ==
  /\ op' = "getCorpusStats"
  /\ ret' = getCorpusStats(termFrequencyCache, documentFrequency, totalDocuments)
  /\ args' = NoArguments
  /\ UNCHANGED <<text, topicVars>>
  /\ TopicFrame

CreateTextHashCall ==
  \E document \in QueryDocuments \cup {<<"k", "a", "b">>} :
    /\ text' = document
    /\ op' = "createTextHash"
    /\ ret' = createTextHash(document)
    /\ args' = NoArguments
    /\ UNCHANGED topicVars
    /\ TopicFrame

NextReadOnly ==
  \/ CalculateTermFrequencyCall
  \/ CalculateIDFCall
  \/ CalculateTFIDFCall
  \/ ExtractKeywordsByFrequencyCall
  \/ AnalyzeTopicsCall
  \/ GetCorpusStatsCall
  \/ CreateTextHashCall
  \/ ExtractKeywordsByTFIDFCall
  \/ GetCachedTopicsOf(QueryDocuments, {"frequency", "tfidf"})
  \/ UpdateDocumentFrequencyOf(QueryDocuments)
  \/ ResetTopicExtractionCall

SpecReadOnly == InitFallback /\ [][NextReadOnly]_vars


(***************************************************************************)
(* Properties of replaceWordGlobally                                       *)
(***************************************************************************)
EqualIgnoringCase(a, b) == toLowerCase(a) = toLowerCase(b)

\* the positions (0-based) of the free-standing occurrences of tg in t:
\* tg, in any casing, with a non-word character or a text edge on each side
FreeStanding(t, tg) ==
  {p \in 0..(Len(t) - Len(tg)) :
     /\ EqualIgnoringCase(SubSeq(t, p + 1, p + Len(tg)), tg)
     /\ (p = 0 \/ t[p] \notin WORD_CLASS)
     /\ (p + Len(tg) = Len(t) \/ t[p + Len(tg) + 1] \notin WORD_CLASS)}

\* no two occurrences of length n at the positions of M share a character
Disjoint(M, n) == \A p, q \in M : p < q => p + n <= q

RECURSIVE SpliceFrom(_, _, _, _, _)
\* t from position p on, with the length-n occurrence at each position of M
\* replaced by preserveCase(that occurrence, repl) and all else copied
SpliceFrom(t, M, n, repl, p) ==
  IF p >= Len(t) THEN <<>>
  ELSE IF p \in M
       THEN preserveCase(SubSeq(t, p + 1, p + n), repl)
            \o SpliceFrom(t, M, n, repl, p + n)
       ELSE <<t[p + 1]>> \o SpliceFrom(t, M, n, repl, p + 1)

Splice(t, M, n, repl) == SpliceFrom(t, M, n, repl, 0)

Replaced == op = "replaceWordGlobally"

\* C1 (as claimed): replaceWordGlobally replaces every free-standing
\* occurrence of target, also occurrences separated by a single boundary
\* character, each by preserveCase(that occurrence, replacement).
C1_EveryOccurrenceReplaced ==
  (Replaced /\ Disjoint(FreeStanding(text, target), Len(target)))
    => ret = Splice(text, FreeStanding(text, target), Len(target), replacement)

\* C2: replaceWordGlobally replaces only free-standing occurrences of target
\* (never one with a word-class character right before or after it), and the
\* output is the text with some non-overlapping free-standing occurrences
\* replaced by preserveCase(occurrence, replacement) and every other
\* character copied unchanged, in order.
C2_OnlyFreeStandingReplaced ==
  Replaced =>
    \E M \in SUBSET FreeStanding(text, target) :
      /\ Disjoint(M, Len(target))
      /\ ret = Splice(text, M, Len(target), replacement)

\* the occurrences of target (any casing) that touch a word-class character
Embedded(t, tg) ==
  {p \in 0..(Len(t) - Len(tg)) :
     /\ EqualIgnoringCase(SubSeq(t, p + 1, p + Len(tg)), tg)
     /\ p \notin FreeStanding(t, tg)}

\* C2 witness: a text with one replaced occurrence and one occurrence inside
\* a longer word, which is copied
C2_Witness ==
  /\ Replaced
  /\ text = <<"a", " ", "a", "A">>
  /\ target = <<"a">>
  /\ replacement = <<"b">>
  /\ Embedded(text, target) = {2, 3}
  /\ ret = <<"b", " ", "a", "A">>

\* C3 (as claimed): applying replaceWordGlobally to its own output with the
\* same target and replacement (target # replacement) changes nothing.
C3_Idempotent ==
  (Replaced /\ target # replacement)
    => replaceWordGlobally(ret, target, replacement) = ret

(***************************************************************************)
(* Properties of getWordFragment                                           *)
(***************************************************************************)
Fragment == op = "getWordFragment"

\* C4: for an in-range offset, 0 <= start <= offset <= end <= len(text) and
\* word = text.slice(start, end).
C4_FragmentAroundOffset ==
  (Fragment /\ InRange) =>
    /\ 0 <= ret.start
    /\ ret.start <= index
    /\ index <= ret.end
    /\ ret.end <= Len(text)
    /\ ret.word = SubSeq(text, ret.start + 1, ret.end)

\* C4 witness: the offset strictly inside a word
C4_Witness ==
  /\ Fragment
  /\ InRange
  /\ 0 < ret.start
  /\ ret.start < index
  /\ index < ret.end

\* C5: for an in-range offset the fragment is the maximal run of word-class
\* characters around the offset: all of [start, end) is word-class, the
\* characters just outside are not; with a non-word character or a text edge
\* on both sides of the offset the word is empty and start = end = offset; a
\* word touching the offset on either side is returned whole (a hyphen is
\* word-class, so a hyphenated word is one word).
C5_MaximalWordRun ==
  (Fragment /\ InRange) =>
    LET leftIsWord == index > 0 /\ text[index] \in WORD_CLASS
        rightIsWord == index < Len(text) /\ text[index + 1] \in WORD_CLASS
    IN  /\ \A k \in (ret.start + 1)..ret.end : text[k] \in WORD_CLASS
        /\ ret.start > 0 => text[ret.start] \notin WORD_CLASS
        /\ ret.end < Len(text) => text[ret.end + 1] \notin WORD_CLASS
        /\ (~leftIsWord /\ ~rightIsWord)
             => (ret.start = index /\ ret.end = index /\ ret.word = <<>>)
        /\ leftIsWord => ret.start < index
        /\ rightIsWord => ret.end > index

\* C5 witness: the offset at the end of a hyphenated word
C5_Witness ==
  /\ Fragment
  /\ text = <<" ", "a", "-", "A">>
  /\ index = 4
  /\ ret = [word |-> <<"a", "-", "A">>, start |-> 1, end |-> 4]

(***************************************************************************)
(* Properties of getSentenceBounds                                         *)
(***************************************************************************)
Sentence == op = "getSentenceBounds"

\* the 0-based positions of t that hold a sentence terminator
TerminatorsAt(t) == {p \in 0..(Len(t) - 1) : t[p + 1] \in Terminators}

OnePast(P) == IF P = {} THEN 0 ELSE Max(P) + 1

\* C6 (as claimed): sentStart is one past the last terminator at or before
\* the offset (p <= offset), or 0.
C6_StartAtOrBeforeOffset ==
  (Sentence /\ InRange)
    => ret.sentStart = OnePast({p \in TerminatorsAt(text) : p <= index})

\* C6 (amended): sentStart is one past the last terminator strictly before
\* the offset (p < offset), or 0; with a terminator just before the offset
\* and one at it the sentence is the one-character span of the terminator at
\* the offset; the sentence is empty exactly when the offset is len(text)
\* and the text is empty or ends with a terminator.
C6_StartBeforeOffset ==
  (Sentence /\ InRange) =>
    /\ ret.sentStart = OnePast({p \in TerminatorsAt(text) : p < index})
    /\ ({index - 1, index} \subseteq TerminatorsAt(text)
          => (ret.sentStart = index /\ ret.sentEnd = index + 1))
    /\ (ret.sentStart = ret.sentEnd
          <=> (index = Len(text)
                 /\ (Len(text) = 0 \/ text[Len(text)] \in Terminators)))

\* C6 witness: consecutive terminators around the offset, after a first
\* sentence
C6_Witness ==
  /\ Sentence
  /\ InRange
  /\ {index - 1, index} \subseteq TerminatorsAt(text)
  /\ index >= 2
  /\ ret.sentStart = index

\* C7: sentEnd is one past the first terminator at or after the offset, or
\* len(text); 0 <= sentStart <= sentEnd <= len(text); the sentence holds no
\* terminator except possibly as its last character.
C7_EndAfterOffset ==
  (Sentence /\ InRange) =>
    LET after == {q \in TerminatorsAt(text) : q >= index}
    IN  /\ ret.sentEnd = (IF after = {} THEN Len(text) ELSE Min(after) + 1)
        /\ 0 <= ret.sentStart
        /\ ret.sentStart <= ret.sentEnd
        /\ ret.sentEnd <= Len(text)
        /\ \A k \in ret.sentStart..(ret.sentEnd - 2) : k \notin TerminatorsAt(text)

\* C7 witness: a sentence of two characters or more between two terminators
C7_Witness ==
  /\ Sentence
  /\ InRange
  /\ ret.sentStart > 0
  /\ ret.sentEnd - ret.sentStart >= 2
  /\ (ret.sentEnd - 1) \in TerminatorsAt(text)

(***************************************************************************)
(* Offsets outside the text                                                *)
(***************************************************************************)
\* the offset clamped into [0, len(text)]
Clamp(t, i) == Max({0, Min({i, Len(t)})})

\* C8 (as claimed): with an offset that is negative or beyond len(text) both
\* resolvers answer as for the clamped offset, every position within
\* [0, len(text)] and start <= end.
C8_OutOfRangeClamped ==
  /\ (Fragment /\ ~InRange) =>
       /\ ret = getWordFragment(text, Clamp(text, index))
       /\ 0 <= ret.start /\ ret.start <= ret.end /\ ret.end <= Len(text)
  /\ (Sentence /\ ~InRange) =>
       /\ ret = getSentenceBounds(text, Clamp(text, index))
       /\ 0 <= ret.sentStart /\ ret.sentStart <= ret.sentEnd
       /\ ret.sentEnd <= Len(text)

(***************************************************************************)
(* Properties of preserveCase                                              *)
(***************************************************************************)
Cased == op = "preserveCase"

\* the start (1-based) of the whitespace-delimited token that holds r[i]
TokenStart(r, i) ==
  Max({j \in 1..i : j = 1 \/ r[j - 1] \in Whitespace})

\* r with every whitespace-delimited token that starts with an ASCII letter
\* title-cased, and everything else, the whitespace too, as it is
TitleCasedInPlace(r) ==
  [i \in 1..Len(r) |->
     IF r[i] \in Whitespace THEN r[i]
     ELSE LET j == TokenStart(r, i)
          IN  IF r[j] \notin AsciiLetters THEN r[i]
              ELSE IF i = j THEN UpperChar(r[i]) ELSE LowerChar(r[i])]

RECURSIVE SingleSpaced(_, _)
\* r from position i on (1-based) with every maximal run of whitespace
\* turned into one space
SingleSpaced(r, i) ==
  IF i > Len(r) THEN <<>>
  ELSE IF r[i] \notin Whitespace THEN <<r[i]>> \o SingleSpaced(r, i + 1)
  ELSE IF i > 1 /\ r[i - 1] \in Whitespace THEN SingleSpaced(r, i + 1)
  ELSE <<" ">> \o SingleSpaced(r, i + 1)

AllUpper(o) == o # toLowerCase(o) /\ o = toUpperCase(o)
StartsUpper(o) == o[1] \in UpperLetters

\* C9 (as claimed): upper-cased replacement for an all-upper original;
\* else, for an original starting with an uppercase letter, the replacement
\* with its letter-initial tokens title-cased and the rest unchanged; else
\* the lower-cased replacement; the replacement itself for an empty original.
C9_CasePatternKept ==
  Cased =>
    ret = (IF original = <<>> THEN replacement
           ELSE IF AllUpper(original) THEN toUpperCase(replacement)
           ELSE IF StartsUpper(original) THEN TitleCasedInPlace(replacement)
           ELSE toLowerCase(replacement))

\* C9 (amended): as claimed, and in the title-case branch every maximal run
\* of whitespace of the replacement (leading and trailing runs too) comes
\* out as one space.
C9_CasePatternKeptSingleSpaced ==
  Cased =>
    ret = (IF original = <<>> THEN replacement
           ELSE IF AllUpper(original) THEN toUpperCase(replacement)
           ELSE IF StartsUpper(original)
                THEN SingleSpaced(TitleCasedInPlace(replacement), 1)
           ELSE toLowerCase(replacement))

\* C9 witness: a title-case original and a replacement of two tokens, one
\* starting with a letter and one with a digit
C9_Witness ==
  /\ Cased
  /\ original = <<"A", "b">>
  /\ replacement = <<"b", "C", " ", "1">>
  /\ ret = <<"B", "c", " ", "1">>

(***************************************************************************)
(* Properties of detectWeakWords                                           *)
(***************************************************************************)
Detected == op = "detectWeakWords"

Range(f) == {f[k] : k \in DOMAIN f}

\* the place of a category in the order the patterns are compiled in
CategoryRank(c) == CHOOSE k \in DOMAIN WEAK_WORDS : WEAK_WORDS[k].category = c

\* every free-standing occurrence of every word of every word category
WordOccurrences(t) ==
  UNION {UNION {{[category |-> e.category, start |-> p, end |-> p + Len(w)] :
                   p \in FreeStanding(t, w)} :
                w \in Range(e.words)} :
         e \in {x \in Range(WEAK_WORDS) : x.category # "phrases"}}

\* t[p, e) is a phrase: the words of a phrase pattern, in any casing, with
\* whitespace between them, and a \b on each side
IsPhraseAt(t, p, e) ==
  /\ WordBreakAt(t, p)
  /\ WordBreakAt(t, e)
  /\ t[p + 1] \notin Whitespace
  /\ t[e] \notin Whitespace
  /\ LET tokens == splitWhitespace(SubSeq(t, p + 1, e))
     IN  [k \in DOMAIN tokens |-> toLowerCase(tokens[k])] \in Range(phrases)

PhraseOccurrences(t) ==
  {[category |-> "phrases", start |-> pe[1], end |-> pe[2]] :
     pe \in {x \in (0..Len(t)) \X (0..Len(t)) :
              x[1] < x[2] /\ IsPhraseAt(t, x[1], x[2])}}

\* C10: detectWeakWords reports every match of every pattern, one per
\* category for a word listed in two, none suppressed; in non-decreasing
\* order of start, equal starts in the order the categories are compiled;
\* each with 0 <= start <= end <= len(text) and word = text.slice(start, end).
C10_AllMatchesInOrder ==
  Detected =>
    LET spans == {[category |-> ret[k].category, start |-> ret[k].start,
                   end |-> ret[k].end] : k \in DOMAIN ret}
    IN  /\ spans = WordOccurrences(text) \cup PhraseOccurrences(text)
        /\ Len(ret) = Cardinality(spans)
        /\ \A i, j \in DOMAIN ret :
             i < j =>
               /\ ret[i].start <= ret[j].start
               /\ ret[i].start = ret[j].start
                    => CategoryRank(ret[i].category) <= CategoryRank(ret[j].category)
        /\ \A k \in DOMAIN ret :
             /\ 0 <= ret[k].start
             /\ ret[k].start <= ret[k].end
             /\ ret[k].end <= Len(text)
             /\ ret[k].word = SubSeq(text, ret[k].start + 1, ret[k].end)

\* C10 witness: a vague word, then a word that is intensifier and hedge:
\* three matches, found in another order than they are reported in, the
\* last two on the same span
C10_Witness ==
  /\ Detected
  /\ text = <<"s", "t", "u", "f", "f", " ", "Q", "u", "i", "t", "e">>
  /\ Len(ret) = 3
  /\ ret[1].category = "vague" /\ ret[1].start = 0 /\ ret[1].end = 5
  /\ ret[2].category = "intensifiers" /\ ret[2].start = 6 /\ ret[2].end = 11
  /\ ret[3].category = "hedges" /\ ret[3].start = 6 /\ ret[3].end = 11
  /\ ret[3].word = <<"Q", "u", "i", "t", "e">>

(***************************************************************************)
(* Properties of flagWeakWords                                             *)
(***************************************************************************)
Flagged == op = "flagWeakWords"

RECURSIVE Repeat(_, _)
\* n copies of the string s
Repeat(s, n) == IF n <= 0 THEN <<>> ELSE s \o Repeat(s, n - 1)

RECURSIVE MarkedFrom(_, _, _, _, _)
\* the text from position p on, with R after every span that ends at a
\* position and L before every span that starts there
MarkedFrom(t, ms, L, R, p) ==
  LET closing == Cardinality({k \in 1..Len(ms) : ms[k].end = p})
      opening == Cardinality({k \in 1..Len(ms) : ms[k].start = p})
      here == Repeat(R, closing) \o Repeat(L, opening)
  IN  IF p >= Len(t) THEN here
      ELSE here \o <<t[p + 1]>> \o MarkedFrom(t, ms, L, R, p + 1)

Marked(t, ms, L, R) == MarkedFrom(t, ms, L, R, 0)

\* s occurs in t
Contains(t, s) ==
  \E j \in 0..(Len(t) - Len(s)) : SubSeq(t, j + 1, j + Len(s)) = s

\* C11 (as claimed): flagWeakWords(text, L, R) is the text with L put right
\* before and R right after the span of every match of detectWeakWords(text),
\* two matches of the same span included, so that every matched word shows
\* as L + word + R; without a match the output is the text.
C11_EveryMatchWrapped ==
  Flagged =>
    LET ms == detectWeakWords(text, weakWordPatterns)
    IN  /\ ret = Marked(text, ms, leftMarker, rightMarker)
        /\ \A k \in 1..Len(ms) :
             Contains(ret, leftMarker \o ms[k].word \o rightMarker)
        /\ (ms = <<>> => ret = text)


(***************************************************************************)
(* Properties of getWritingStrength and calculateWeakWordDensity            *)
(***************************************************************************)

\* x limited to the range from 0 to 100
Clamped(x) ==
  IF RatLess(x, Num(0)) THEN Num(0)
  ELSE IF RatLess(Num(100), x) THEN Num(100)
  ELSE x

\* r is the integer nearest to x, a half counting upwards
Nearest(x, r) ==
  /\ 2 * r * x.den - x.den <= 2 * x.num
  /\ 2 * x.num < 2 * r * x.den + x.den

\* the matches of the text in a category
MatchesIn(t, category) ==
  LET ms == detectWeakWords(t, compileWeakWordPatterns)
  IN  Cardinality({k \in 1..Len(ms) : ms[k].category = category})

\* a call of getWritingStrength has returned
StrengthReturned == op = "getWritingStrength" /\ ~ret.thrown

GradeForScore(score) ==
  IF score >= 90 THEN "Excellent"
  ELSE IF score >= 75 THEN "Good"
  ELSE IF score >= 60 THEN "Fair"
  ELSE IF score >= 40 THEN "Weak"
  ELSE "Very Weak"

\* C13 (as claimed): the grade that getWritingStrength returns is the one the
\* thresholds 90, 75, 60, 40 give to the score it returns.
C13_GradeFromReturnedScore ==
  StrengthReturned => ret.value.grade = GradeForScore(ret.value.score)


\* single weak words, one of each category; quite is listed in two
AddedWords ==
  {<<"v", "e", "r", "y">>, <<"s", "t", "u", "f", "f">>,
   <<"m", "a", "y", "b", "e">>, <<"j", "u", "s", "t">>,
   <<"q", "u", "i", "t", "e">>}

\* the text with one more weak word after it
WithAdded(t, w) == t \o <<" ">> \o w

\* the score of a text
ScoreOf(t) == getWritingStrength(t, compileWeakWordPatterns).value.score

\* C14 (as claimed): the text with one more weak word scores strictly less.
C14_StrictlyDecreasing ==
  StrengthReturned =>
    \A w \in AddedWords : ScoreOf(WithAdded(text, w)) < ret.value.score

\* C14 (amended): the text with one more single weak word after it never
\* scores more, and scores strictly less when the score of the text is above
\* 0 and the text has fewer than 50 words.
C14_DecreasingAboveZero ==
  StrengthReturned =>
    \A w \in AddedWords :
      LET after == ScoreOf(WithAdded(text, w))
      IN  /\ after <= ret.value.score
          /\ (ret.value.score > 0 /\ Len(WhitespaceWords(text)) < 50)
               => after < ret.value.score

\* a text of seven words scoring 41 scores 23 with one more intensifier
C14_Witness ==
  /\ StrengthReturned
  /\ ret.value.score = 41
  /\ ScoreOf(WithAdded(text, <<"v", "e", "r", "y">>)) = 23


\* the positions where a whitespace-delimited word of the text starts
WordStarts(t) ==
  {i \in 1..Len(t) :
     t[i] \notin Whitespace /\ (i = 1 \/ t[i - 1] \in Whitespace)}

\* the number of matches that detectWeakWords reports
MatchCount(t) == Len(detectWeakWords(t, compileWeakWordPatterns))

\* the position after the word that starts at i
WordEnd(t, i) ==
  Min({j \in i + 1..Len(t) + 1 : j = Len(t) + 1 \/ t[j] \in Whitespace})

\* the texts that differ from t in one word, which is the given one in them
\* and another one in t
OneWordChanged(t, w) ==
  {SubSeq(t, 1, i - 1) \o w \o SubSeq(t, WordEnd(t, i), Len(t)) :
     i \in {k \in WordStarts(t) : SubSeq(t, k, WordEnd(t, k) - 1) # w}}

DensityOf(t) == calculateWeakWordDensity(t, compileWeakWordPatterns).value

\* a call of calculateWeakWordDensity has returned
DensityReturned == op = "calculateWeakWordDensity" /\ ~ret.thrown

\* C15: the density is 100 * matches / words, with the matches that
\* detectWeakWords reports and the whitespace-delimited words of the text; it
\* is 0 for a text without a word; of two texts with the same number of words
\* the one with at least as many matches has at least the density of the other.
C15_DensityFormula ==
  DensityReturned =>
    LET words == Cardinality(WordStarts(text))
        matches == MatchCount(text)
    IN  /\ words = 0 => ret.value = Num(0)
        /\ words > 0 =>
             /\ ret.value.num * words = 100 * matches * ret.value.den
             /\ ret.value.den > 0
        /\ \A w \in {<<"x">>, <<"v", "e", "r", "y">>} :
             \A u \in OneWordChanged(text, w) :
               /\ MatchCount(u) >= matches => RatLeq(ret.value, DensityOf(u))
               /\ MatchCount(u) <= matches => RatLeq(DensityOf(u), ret.value)

\* thirteen words with four matches, and texts of thirteen words with three
\* and with five matches next to it
C15_Witness ==
  /\ DensityReturned
  /\ text = WordsText(9, 2, 2)
  /\ ret.value = Rat(400, 13)
  /\ \E u \in OneWordChanged(text, <<"x">>) : MatchCount(u) = 3
  /\ \E u \in OneWordChanged(text, <<"v", "e", "r", "y">>) : MatchCount(u) = 5


(***************************************************************************)
(* Properties of the queries on empty and null input                       *)
(***************************************************************************)

\* the call that op names ended normally
ReturnedNormally ==
  op \in {"calculateWeakWordDensity", "getWritingStrength",
          "calculateTermFrequency", "extractKeywords"} => ~ret.thrown

\* C16 (as claimed): on the empty text and on null no query raises an error:
\* detectWeakWords returns the empty list, calculateWeakWordDensity returns 0,
\* getWritingStrength returns zero counts, countWords returns 0,
\* calculateTermFrequency and extractKeywords return empty collections, and
\* detectPOS of the empty or null word returns unknown with confidence none.
C16_TotalOnEmptyAndNull ==
  /\ (op # "none" /\ (text = <<>> \/ text = NULL) /\ op # "detectPOS") =>
       /\ ReturnedNormally
       /\ op = "detectWeakWords" => ret = <<>>
       /\ op = "calculateWeakWordDensity" => ret.value = Num(0)
       /\ op = "getWritingStrength" => ret.value.totalWeakWords = 0
       /\ op = "countWords" => ret = 0
       /\ op = "calculateTermFrequency" => ret.value = <<>>
       /\ op = "extractKeywords" => ret.value = <<>>
  /\ (op = "detectPOS" /\ (queryWord = <<>> \/ queryWord = NULL)) =>
       ret = [pos |-> "unknown", confidence |-> "none"]


(***************************************************************************)
(* Properties of the matcher cache                                         *)
(***************************************************************************)

\* C17: the matcher is not compiled before the first detectWeakWords call, it
\* is compiled at most once between two resetWeakWordPatterns calls, the
\* detection that finds no matcher compiles the rule set as it is at that
\* moment, and a detection made while the rule set has not changed under the
\* compiled matcher reports the matches of the rule set as it is.
C17_MatcherLifecycle ==
  /\ [](op = "none" => weakWordPatterns = NULL)
  /\ [](compilations <= 1)
  /\ [][weakWordPatterns' # weakWordPatterns =>
          \/ /\ op' = "resetWeakWordPatterns"
             /\ weakWordPatterns' = NULL
          \/ /\ op' = "detectWeakWords"
             /\ weakWordPatterns = NULL
             /\ weakWordPatterns' = compileWeakWordPatterns]_vars
  /\ []((op = "detectWeakWords" /\ ~rulesChanged) =>
          /\ weakWordPatterns = compileWeakWordPatterns
          /\ ret = detectWeakWords(text, compileWeakWordPatterns))

\* after the rule set got the vague word x, a detection on a fresh matcher
\* reports x in the text 'x very'
C17_Witness ==
  /\ op = "detectWeakWords"
  /\ ruleSet = WithVagueX
  /\ ~rulesChanged
  /\ compilations = 1
  /\ text = <<"x", " ", "v", "e", "r", "y">>
  /\ Len(ret) = 2
  /\ ret[1].category = "vague"


(***************************************************************************)
(* Properties of detectPOS                                                 *)
(***************************************************************************)

\* the word ends in the suffix, in any casing
HasSuffix(word, suffix) ==
  /\ Len(word) >= Len(suffix)
  /\ \A j \in 1..Len(suffix) :
       LowerChar(word[Len(word) - Len(suffix) + j]) = suffix[j]

\* one rule of the cascade
CascadeRule(applies, pos, confidence) ==
  [applies |-> applies, pos |-> pos, confidence |-> confidence]

\* the closed-class tables in the order of the cascade
ClosedClassRules(word) ==
  LET lower == [j \in 1..Len(word) |-> LowerChar(word[j])]
  IN  <<CascadeRule(lower \in MODAL_VERBS, "modal verb", "high"),
        CascadeRule(lower \in IRREGULAR_VERBS, "verb", "high"),
        CascadeRule(lower \in PRONOUNS, "pronoun", "high"),
        CascadeRule(lower \in DETERMINERS, "determiner", "high"),
        CascadeRule(lower \in PREPOSITIONS, "preposition", "high"),
        CascadeRule(lower \in CONJUNCTIONS, "conjunction", "high"),
        CascadeRule(lower \in COMMON_ADVERBS, "adverb", "high")>>

\* the suffix rules of POS_RULES in list order, without the rule for -ly and
\* the rule for -ing
SuffixRules(word) ==
  LET others == SelectSeq(POS_RULES,
                          LAMBDA r : r.suffixes \notin {<<<<"l", "y">>>>,
                                                        <<<<"i", "n", "g">>>>})
  IN  [k \in 1..Len(others) |->
         CascadeRule(\E j \in 1..Len(others[k].suffixes) :
                       HasSuffix(word, others[k].suffixes[j]),
                     others[k].pos, others[k].confidence)]

\* the first character is its own upper-case form, the word has more than two
\* characters and is not its own upper-case form
CapitalizedWord(word) ==
  /\ Len(word) > 2
  /\ UpperChar(word[1]) = word[1]
  /\ \E j \in 1..Len(word) : UpperChar(word[j]) # word[j]

\* the seven steps of the cascade, in order
Cascade(word) ==
  <<CascadeRule(HasSuffix(word, <<"l", "y">>), "adverb", "high"),
    CascadeRule(HasSuffix(word, <<"i", "n", "g">>), "verb (gerund)", "high")>>
  \o ClosedClassRules(word)
  \o SuffixRules(word)
  \o <<CascadeRule(CapitalizedWord(word), "proper noun", "low"),
       CascadeRule(Len(word) <= 3, "function word", "low"),
       CascadeRule(TRUE, "unknown", "none")>>

\* the rules that apply to the word
Applicable(word) == {k \in 1..Len(Cascade(word)) : Cascade(word)[k].applies}

\* a call of detectPOS on a non-empty word has returned
TaggedWord == op = "detectPOS" /\ queryWord \notin {<<>>, NULL}

LastOf(s, n) == SubSeq(s, Max({1, Len(s) - n + 1}), Len(s))

\* the fingerprints in the cache, the one inserted or hit longest ago first
CachedKeys == MapKeys(termFrequencyCache)

\* C19: the cache holds the fingerprints used most recently, as many as its
\* capacity allows, in the order of their last use (insertion or hit); a
\* miss on a full cache removes exactly the entry used longest ago and a hit
\* removes none.
C19_LeastRecentlyUsedEvicted ==
  /\ [](CachedKeys = LastOf(useLog, MAX_CACHE_SIZE))
  /\ [][op' = "getCachedTopics" =>
          LET hash == createTextHash(text')
              keys == MapKeys(termFrequencyCache)
              after == MapKeys(termFrequencyCache')
          IN  IF MapHas(termFrequencyCache, hash)
              THEN after = SelectSeq(keys, LAMBDA k : k # hash) \o <<hash>>
              ELSE IF Len(keys) = MAX_CACHE_SIZE
              THEN after = Tail(keys) \o <<hash>>
              ELSE after = keys \o <<hash>>]_vars

\* one fingerprint more than the capacity has been used: the one used
\* longest ago is absent and all the others, the empty document's among them,
\* are present
C19_Witness ==
  /\ op = "getCachedTopics"
  /\ Len(useLog) = MAX_CACHE_SIZE + 1
  /\ CachedKeys = Tail(useLog)
  /\ \E i \in 1..Len(CachedKeys) : CachedKeys[i] = <<>>
  /\ useLog[1] = <<"a", "l", "p", "h", "a">>
  /\ text = <<"d", "e", "l", "t", "a">>

\* C20: after every getCachedTopics and resetTopicExtraction call the cache
\* has at most MAX_CACHE_SIZE entries.
C20_CacheWithinCapacity == Len(termFrequencyCache) <= MAX_CACHE_SIZE

\* a full cache after more distinct fingerprints than the capacity
C20_Witness ==
  /\ Len(termFrequencyCache) = MAX_CACHE_SIZE
  /\ Len(useLog) > MAX_CACHE_SIZE + 1


\* a call of getCachedTopics has returned
TopicsReturned == op = "getCachedTopics" /\ ~ret.thrown

\* C21 (as claimed): getCachedTopics returns at most n terms, and what
\* getTopKeywords computes for the text and n without the cache, whatever was
\* requested before.
C21_CachedEqualsComputed ==
  TopicsReturned =>
    /\ Len(ret.value) <= args.count
    /\ ret.value = getTopKeywords(text, args.count, args.algorithm,
                                  documentFrequency, totalDocuments).keywords.value

\* the terms of t that count: runs of word characters of the lower-cased text
\* that are no stopword and have at least three characters
QualifyingTerms(t) ==
  LET words == matchKeywords(toLowerCase(t))
  IN  {words[i] : i \in {j \in 1..Len(words) :
                           words[j] \notin STOPWORDS /\ Len(words[j]) >= 3}}

\* the terms of a document-frequency table, and the count of one term
TermsOf(df) == {df[i].key : i \in 1..Len(df)}
DocumentCount(df, term) == IF MapHas(df, term) THEN MapGet(df, term) ELSE 0

\* C22: every updateDocumentFrequency(text) call adds exactly 1 to the count
\* of each distinct qualifying term of the text, however often it occurs,
\* changes no other count (a compaction may drop terms, never change a
\* count), and adds exactly 1 to totalDocuments, also for a text without
\* qualifying terms.
C22_EachTermCountedOnce ==
  [][op' = "updateDocumentFrequency" =>
       \E qualifying \in {QualifyingTerms(text')} :
         \E counted \in {TermsOf(documentFrequency) \cup qualifying} :
           /\ totalDocuments' = totalDocuments + 1
           /\ Cardinality(TermsOf(documentFrequency')) = Len(documentFrequency')
           /\ \A term \in TermsOf(documentFrequency') :
                /\ term \in counted
                /\ DocumentCount(documentFrequency', term) =
                     DocumentCount(documentFrequency, term) +
                       (IF term \in qualifying THEN 1 ELSE 0)
           /\ Cardinality(counted) <= MAX_CACHE_SIZE * 10 =>
                TermsOf(documentFrequency') = counted]_vars

\* "kaa Kaa kab" was counted into a table that had "kaa" once: "kaa" now
\* has 2, "kab" 1
C22_Witness ==
  /\ op = "updateDocumentFrequency"
  /\ text = <<"k", "a", "a", " ", "K", "a", "a", " ", "k", "a", "b">>
  /\ DocumentCount(documentFrequency, <<"k", "a", "a">>) = 2
  /\ DocumentCount(documentFrequency, <<"k", "a", "b">>) = 1
  /\ totalDocuments = 2

\* C23: after every updateDocumentFrequency call the table holds at most
\* 10 x MAX_CACHE_SIZE terms; a call that pushes it above that leaves exactly
\* 5 x MAX_CACHE_SIZE terms, each with a count no less than any dropped
\* term's, the kept counts as they were after counting, and totalDocuments
\* raised by 1 as in any other call.
C23_StatisticsBounded ==
  [][op' = "updateDocumentFrequency" =>
       \E qualifying \in {QualifyingTerms(text')} :
         \E counted \in {TermsOf(documentFrequency) \cup qualifying} :
           \E kept \in {TermsOf(documentFrequency')} :
             LET CountOf(term) == DocumentCount(documentFrequency, term) +
                                    (IF term \in qualifying THEN 1 ELSE 0)
             IN  /\ Len(documentFrequency') <= MAX_CACHE_SIZE * 10
                 /\ Cardinality(counted) > MAX_CACHE_SIZE * 10 =>
                      /\ Len(documentFrequency') = MAX_CACHE_SIZE * 5
                      /\ Cardinality(kept) = MAX_CACHE_SIZE * 5
                      /\ kept \subseteq counted
                      /\ \A k \in kept :
                           /\ DocumentCount(documentFrequency', k) = CountOf(k)
                           /\ \A d \in counted \ kept : CountOf(k) >= CountOf(d)
                      /\ totalDocuments' = totalDocuments + 1]_vars

\* a wide document was counted and none of its terms is in the table: the
\* table was cut to 5 x MAX_CACHE_SIZE terms and the newest terms were dropped
C23_Witness ==
  /\ op = "updateDocumentFrequency"
  /\ text \in WideDocuments
  /\ QualifyingTerms(text) \cap TermsOf(documentFrequency) = {}
  /\ Len(documentFrequency) = MAX_CACHE_SIZE * 5

\* C24: extractKeywords with algorithm 'tfidf' ranks by TF-IDF exactly when
\* totalDocuments > 0 and by frequency otherwise; on the TF-IDF path the text
\* is counted into the corpus statistics, before the scores are computed,
\* exactly when updateStats is true and totalDocuments is below
\* MAX_CACHE_SIZE, totalDocuments growing by 1; in every other case the
\* statistics stay as they are, so the call never raises totalDocuments
\* above MAX_CACHE_SIZE.
C24_StatisticsUpdatedBelowCap ==
  [][op' = "extractKeywords" =>
       LET usesTFIDF == args'.algorithm = "tfidf" /\ totalDocuments > 0
           updates == usesTFIDF /\ args'.updateStats
                        /\ totalDocuments < MAX_CACHE_SIZE
       IN  /\ ~ret'.thrown
           /\ IF usesTFIDF
              THEN ret' = extractKeywordsByTFIDF(text', args'.count, args'.minLength, FALSE,
                                                 documentFrequency', totalDocuments').keywords
              ELSE ret' = extractKeywordsByFrequency(text', args'.count, args'.minLength)
           /\ IF updates
              THEN \E counted \in {updateDocumentFrequency(text', documentFrequency,
                                                           totalDocuments)} :
                     /\ documentFrequency' = counted.df
                     /\ totalDocuments' = totalDocuments + 1
              ELSE UNCHANGED <<documentFrequency, totalDocuments>>
           /\ totalDocuments' > totalDocuments => totalDocuments' <= MAX_CACHE_SIZE]_vars

\* a TF-IDF extraction with updateStats has returned with two documents
\* counted: it found one and counted its text as the second
C24_Witness ==
  /\ op = "extractKeywords"
  /\ args.algorithm = "tfidf"
  /\ args.updateStats
  /\ totalDocuments = 2
  /\ ret.value # <<>>

\* the words of the lower-cased text that count as terms of length >= minLength
TermWords(t, minLength) ==
  SelectSeq(matchKeywords(toLowerCase(t)),
            LAMBDA w : w \notin STOPWORDS /\ Len(w) >= minLength)

\* how often, and where first, a term stands among the words
Occurrences(words, term) == Cardinality({i \in 1..Len(words) : words[i] = term})
FirstOccurrence(words, term) ==
  CHOOSE i \in 1..Len(words) :
    words[i] = term /\ \A j \in 1..(i - 1) : words[j] # term

\* an extractKeywords call has returned, its keywords ranked by count
RankedByFrequency ==
  /\ op = "extractKeywords"
  /\ ~ret.thrown
  /\ args.algorithm = "frequency" \/ totalDocuments = 0

\* an extractKeywords call has returned, its keywords ranked by TF-IDF
RankedByTFIDF ==
  /\ op = "extractKeywords"
  /\ ~ret.thrown
  /\ args.algorithm = "tfidf" /\ totalDocuments > 0

\* the list is a ranking of the terms of words by Less, a strict order of
\* scores: at most n entries, each a term of words, best first, equal scores
\* in the order of first occurrence, and no term left out beats a listed one
IsRanking(list, words, n, Score(_), Less(_, _)) ==
  LET listed == {list[i].term : i \in 1..Len(list)}
  IN  /\ Len(list) <= n
      /\ \A i \in 1..Len(list) :
           /\ \E k \in 1..Len(words) : words[k] = list[i].term
           /\ ~Less(list[i].score, Score(list[i].term))
           /\ ~Less(Score(list[i].term), list[i].score)
      /\ \A i, j \in 1..Len(list) :
           i < j =>
             /\ ~Less(list[i].score, list[j].score)
             /\ ~Less(list[j].score, list[i].score) =>
                  FirstOccurrence(words, list[i].term)
                    < FirstOccurrence(words, list[j].term)
      /\ \A k \in 1..Len(words) :
           words[k] \notin listed =>
             \A i \in 1..Len(list) : ~Less(list[i].score, Score(words[k]))

\* C25: the keywords of extractKeywordsByFrequency and extractKeywordsByTFIDF
\* are at most n, none a stopword or shorter than minLength, in order of
\* non-increasing score with equal scores in the order of first occurrence in
\* the text, and no term left out has a higher score than a returned one.
C25_KeywordsRanked ==
  \E words \in {TermWords(text, IF op = "extractKeywords" THEN args.minLength ELSE 3)} :
    /\ RankedByFrequency =>
         IsRanking(ret.value, words, args.count,
                   LAMBDA term : Occurrences(words, term),
                   LAMBDA x, y : x < y)
    /\ RankedByTFIDF =>
         IsRanking(ret.value, words, args.count,
                   LAMBDA term : [tf |-> Rat(Occurrences(words, term), Len(words)),
                                  ratio |-> calculateIDF(term, documentFrequency,
                                                         totalDocuments)],
                   LogLess)

\* of "kab kaa KAB kaa kacd" the one best keyword by TF-IDF was asked for:
\* "kab" is returned, ahead of "kaa" with the same positive score, and "kacd"
\* scores less
C25_Witness ==
  /\ RankedByTFIDF
  /\ text = <<"k", "a", "b", " ", "k", "a", "a", " ", "K", "A", "B", " ",
              "k", "a", "a", " ", "k", "a", "c", "d">>
  /\ args.count = 1
  /\ Len(ret.value) = 1
  /\ ret.value[1].term = <<"k", "a", "b">>
  /\ LogSign(ret.value[1].score) = 1
  /\ DocumentCount(documentFrequency, <<"k", "a", "a">>)
       = DocumentCount(documentFrequency, <<"k", "a", "b">>)

\* the terms of the documents of the topics specification
TopicTerms == UNION {QualifyingTerms(document) : document \in TopicDocuments}

\* C26: resetTopicExtraction() leaves totalDocuments 0, the
\* document-frequency table and the topic cache empty, whatever they held
\* (a second reset finds nothing more to clear); then calculateIDF is 0 for
\* every term (ratio 1), and the next getCachedTopics call of any text
\* computes its topics and caches them as the only entry.
C26_ResetClearsTopics ==
  [][/\ op' = "resetTopicExtraction" =>
          /\ totalDocuments' = 0
          /\ documentFrequency' = <<>>
          /\ termFrequencyCache' = <<>>
          /\ \A term \in TopicTerms :
               calculateIDF(term, documentFrequency', totalDocuments') = Num(1)
     /\ op = "resetTopicExtraction" /\ op' = "getCachedTopics" =>
          \E computed \in {getTopKeywords(text', args'.count, args'.algorithm,
                                          documentFrequency, totalDocuments)} :
            /\ ret' = computed.keywords
            /\ termFrequencyCache' =
                 <<[key |-> createTextHash(text'), value |-> computed.keywords.value]>>]_vars

\* a reset has returned right after a getCachedTopics call, which had left
\* its text in the cache: the cache and the statistics are empty
C26_Witness ==
  /\ op = "resetTopicExtraction"
  /\ args # NoArguments
  /\ text \in TopicDocuments
  /\ TopicsEmpty

\* the lookup stands alone and the service serves it: no other lookup was
\* made, nothing but the lookup itself aborted a request, and no fetch or
\* body of its requests failed
ServedAlone(lookup) ==
  /\ lookup.tokens[1] = 1
  /\ requestToken = lookup.tokens[Len(lookup.tokens)]
  /\ ~requests[Place(requests, requestToken)].aborted
  /\ \A k \in 1..Len(lookup.tokens) :
       ~requests[Place(requests, lookup.tokens[k])].refused

\* C27 (as claimed): lookupWord(query, false), when the synonym request and
\* the similar-words request would both succeed on their own, does not
\* reject, and resolves with the union of the two lists, deduplicated by
\* word in any casing, sorted by descending score and cut to api.maxResults.
C27_LookupCombinesBoth ==
  \A i \in 1..Len(lookups) :
    ~lookups[i].isFragment /\ ServedAlone(lookups[i]) =>
      /\ lookups[i].outcome.state # "rejected"
      /\ lookups[i].outcome.state = "resolved" =>
           lookups[i].outcome.value = Combined(DataFor("rel_syn") \o DataFor("ml"))

ApiErrorType ==
  {"NETWORK_ERROR", "TIMEOUT_ERROR", "RATE_LIMIT_ERROR", "PARSE_ERROR",
   "ABORT_ERROR", "UNKNOWN_ERROR"}

\* C28 (as claimed): a makeRequest call issues at most api.maxRetries + 1
\* fetch attempts, attempt k+1 only after waiting retryDelays[k] (the last
\* delay when there is none for k), issues no attempt after its request was
\* aborted, and ends with an array or with an ApiError.
C28_BoundedRetry ==
  \A i \in 1..Len(requests) :
    LET r == requests[i]
    IN  /\ r.fetches <= maxRetries + 1
        /\ r.fetches = Len(r.waited) + 1
        /\ \A k \in 1..Len(r.waited) :
             r.waited[k] = IF k <= Len(retryDelays) THEN retryDelays[k]
                           ELSE retryDelays[Len(retryDelays)]
        /\ ~r.lateFetch
        /\ r.made.state = "rejected" => r.made.type \in ApiErrorType

\* C29: the history never holds more than maxHistory states; a call that
\* records a state in a full history drops the oldest one and keeps the others
\* in order, with the state recorded last; and canUndo() returns true exactly
\* when the history is not empty.
C29_HistoryBounded ==
  [][/\ Len(history') <= maxHistory
     /\ Len(history) <= maxHistory
     /\ (op' \in {"setContent", "insertText", "replaceWord"}
         /\ args'.addToHistory /\ Len(history) = maxHistory
           => history' = Tail(history) \o <<editor.value>>)
     /\ (op' = "canUndo" => ret'.value = (history' # <<>>))]_vars

\* a call has recorded a state in a history that is full, whose states all
\* differ
C29_Witness ==
  /\ op \in {"setContent", "insertText", "replaceWord"}
  /\ args.addToHistory
  /\ Len(history) = maxHistory
  /\ \A j \in 1..Len(history), k \in 1..Len(history) :
       j # k => history[j] # history[k]

\* C30: a detection that compiles the matcher (the first one after the start
\* or after a reset) from a rule set holding an entry that is no pattern fails
\* with a configuration error, and leaves no matcher cached.
C30_InvalidRuleSurfaces ==
  [][op' = "detectWeakWords" /\ Compiles(weakWordPatterns)
     /\ ~ValidRules(ruleSet)
       => /\ ret'.thrown
          /\ ret'.value = ConfigurationError.value
          /\ weakWordPatterns' = NULL]_vars

(***************************************************************************)
(* Properties of the display forms of the tagger                           *)
(***************************************************************************)

FrequencyTerms(t, n) ==
  LET ranked == extractKeywordsByFrequency(t, n, 3).value
  IN  [k \in 1..Len(ranked) |-> ranked[k].term]

\* C32: on a corpus without documents (after resetTopicExtraction or at the
\* start) a call of extractKeywords, getTopKeywords, getCachedTopics or
\* analyzeTopics, whatever the algorithm and updateStats, leaves totalDocuments
\* at 0 and the document-frequency table as it is, and a 'tfidf' request gets
\* the frequency ranking; so this lasts until updateDocumentFrequency or
\* extractKeywordsByTFIDF is called directly.
C32_FallbackUntilCounted ==
  [][totalDocuments = 0
     /\ op' \in {"extractKeywords", "getTopKeywords", "getCachedTopics", "analyzeTopics"}
       => /\ totalDocuments' = 0
          /\ documentFrequency = <<>>
          /\ documentFrequency' = <<>>
          /\ (op' = "extractKeywords" =>
                ret' = extractKeywordsByFrequency(text', args'.count, args'.minLength))
          /\ (op' = "getTopKeywords" =>
                ret'.value = FrequencyTerms(text', args'.count))
          /\ (op' = "getCachedTopics" =>
                \E n \in TopicCounts : ret'.value = FrequencyTerms(text', n))
          /\ (op' = "analyzeTopics" =>
                /\ ret'.value.keywords.byTFIDF = <<>>
                /\ ret'.value.keywords.recommended = "byFrequency")]_vars

\* a 'tfidf' request with updateStats set has been answered on a corpus
\* without documents
C32_Witness ==
  /\ op = "extractKeywords"
  /\ args.algorithm = "tfidf"
  /\ args.updateStats
  /\ totalDocuments = 0
  /\ Len(ret.value) > 1

\* C33: a request the caller has not aborted, each of whose fetches was cut
\* by the timeout, is asleep before its next attempt while attempts remain,
\* and after the last attempt its makeRequest has rejected with TIMEOUT_ERROR.
C33_TimeoutRetriedAndReported ==
  \A i \in 1..Len(requests) :
    LET r == requests[i]
    IN  ~r.aborted /\ r.timeouts > 0 /\ r.timeouts = r.fetches =>
          IF r.fetches <= maxRetries THEN r.phase = "sleep"
          ELSE r.made = Rejected("TIMEOUT_ERROR")

(***************************************************************************)
(* Properties of the request token                                         *)
(***************************************************************************)

\* the request of the token, as it is after the step
After(token) == requests'[CHOOSE j \in 1..Len(requests') : requests'[j].token = token]

\* a queryDatamuse call aborts every request still in flight
EarlierAborted ==
  requestToken' > requestToken =>
    \A i \in 1..Len(requests) :
      requests[i].queried.state = "pending" => After(requests[i].token).aborted

\* a queryDatamuse call resolves only while it holds the latest token
OnlyLatestResolves ==
  \A j \in 1..Len(requests') :
    /\ requests'[j].queried.state = "resolved"
    /\ \A i \in 1..Len(requests) :
         requests[i].token = requests'[j].token => requests[i].queried.state = "pending"
    => requests'[j].token = requestToken'

\* an aborted request never resolves, and rejects with ABORT_ERROR
AbortedRejects ==
  \A i \in 1..Len(requests) :
    requests[i].aborted =>
      /\ requests[i].queried.state # "resolved"
      /\ requests[i].queried.state = "rejected" =>
           requests[i].queried.type = "ABORT_ERROR"

\* no controller is kept once every request has settled
ControllerReleased ==
  (\A i \in 1..Len(requests) : requests[i].queried.state # "pending")
    => currentController = 0

\* C34: a queryDatamuse call aborts the requests still in flight; an aborted
\* request never resolves with data and rejects with ABORT_ERROR; only the
\* call holding the latest token resolves with data; and once every request
\* has settled currentController is null.
C34_LatestRequestWins ==
  /\ [](AbortedRejects /\ ControllerReleased)
  /\ [][EarlierAborted /\ OnlyLatestResolves]_vars

(***************************************************************************)
(* Properties of the results panel                                         *)
(***************************************************************************)

\* C35: when the panel shows the loading state and no further lookup is
\* started (the request token stays as it is), the panel eventually shows
\* results, the empty message or an error.
C35_LoadingEnds ==
  \A token \in 0..(MaxRequests + 1) :
    (resultsPanel = "loading" /\ requestToken = token)
      ~> (resultsPanel # "loading" \/ requestToken # token)

\* a call that records the content before it changes it
RecordedEdit ==
  op' \in {"setContent", "insertText", "replaceWord"} /\ args'.addToHistory

\* C36: a recorded edit (setContent with addToHistory, insertText, replaceWord)
\* leaves the content it found as the last state of the history, above the
\* states that were there; undo() on a history with states returns true, puts
\* the last state back as the content and takes it off the history, so that an
\* undo right after an edit restores the content before the edit and k undos
\* after k edits restore the contents in reverse order; undo() on an empty
\* history returns false and changes neither the content nor the history.
C36_UndoInvertsEdit ==
  [][/\ RecordedEdit =>
          /\ history' # <<>>
          /\ history'[Len(history')] = editor.value
          /\ SubSeq(history', 1, Len(history') - 1)
               = (IF Len(history) < maxHistory THEN history ELSE Tail(history))
          /\ undo(editor', history').value
          /\ undo(editor', history').editor.value = editor.value
     /\ op' = "undo" /\ history # <<>> =>
          /\ ret'.value = TRUE
          /\ editor'.value = history[Len(history)]
          /\ history' = SubSeq(history, 1, Len(history) - 1)
     /\ op' = "undo" /\ history = <<>> =>
          /\ ret'.value = FALSE
          /\ editor' = editor
          /\ history' = <<>>]_vars

\* an undo has returned true and put the empty content back, and a state is
\* left to go back to
C36_Witness ==
  /\ op = "undo"
  /\ ret.value
  /\ Len(history) = maxHistory - 2
  /\ editor.value = <<>>

\* the ratio whose logarithm calculateIDF returns is no less than 1
NonNegativeIDF(term) ==
  \E idf \in {calculateIDF(term, documentFrequency, totalDocuments)} :
    idf.num >= idf.den

\* C37: in every state reached by updateDocumentFrequency, extractKeywords,
\* extractKeywordsByTFIDF and resetTopicExtraction calls, cuts of the table
\* included, every term of the document-frequency table has a count between
\* 1 and totalDocuments, totalDocuments decreases by no call other than
\* resetTopicExtraction, and calculateIDF returns a negative value for no
\* term, in the table or not.
C37_CountsWithinDocuments ==
  /\ [](/\ \A i \in 1..Len(documentFrequency) :
             /\ 1 <= documentFrequency[i].value
             /\ documentFrequency[i].value <= totalDocuments
             /\ NonNegativeIDF(documentFrequency[i].key)
        /\ NonNegativeIDF(<<"z", "z", "z">>))
  /\ [][totalDocuments' < totalDocuments => op' = "resetTopicExtraction"]_vars

\* updateDocumentFrequency has counted a wide document and the table was cut
\* to 5 x MAX_CACHE_SIZE terms, a term counted in two documents among them
C37_Witness ==
  /\ op = "updateDocumentFrequency"
  /\ text \in WideDocuments
  /\ Len(documentFrequency) = MAX_CACHE_SIZE * 5
  /\ \E i \in 1..Len(documentFrequency) :
       /\ documentFrequency[i].value = 2
       /\ documentFrequency[i].value < totalDocuments

\* C38: detectPOS returns 'proper noun', with low confidence, only for a
\* word that starts with an uppercase letter, is not entirely uppercase and
\* is longer than 2 characters; a word whose first character is a lowercase
\* letter, a digit or a symbol is never tagged proper noun.
C38_ProperNounNeedsCapital ==
  (op = "detectPOS" /\ ret.pos = "proper noun") =>
    /\ ret.confidence = "low"
    /\ queryWord[1] \in UpperLetters
    /\ queryWord # toUpperCase(queryWord)
    /\ Len(queryWord) > 2

\* the calls that take no part in counting documents or caching topics
ReadOnlyCalls ==
  {"calculateTermFrequency", "calculateIDF", "calculateTFIDF",
   "extractKeywordsByFrequency", "analyzeTopics", "getCorpusStats",
   "createTextHash"}

\* C39: calculateTermFrequency, calculateIDF, calculateTFIDF,
\* extractKeywordsByFrequency, analyzeTopics, getCorpusStats, createTextHash
\* and extractKeywordsByTFIDF with updateStats false leave documentFrequency,
\* totalDocuments and the topic cache as they were; a getCachedTopics call
\* that finds the text in the cache leaves documentFrequency and
\* totalDocuments as they were.
C39_QueriesChangeNothing ==
  [][/\ (\/ op' \in ReadOnlyCalls
         \/ op' = "extractKeywordsByTFIDF" /\ ~args'.updateStats)
          => UNCHANGED <<documentFrequency, totalDocuments, termFrequencyCache>>
     /\ (/\ op' = "getCachedTopics"
         /\ MapHas(termFrequencyCache, createTextHash(text')))
          => UNCHANGED <<documentFrequency, totalDocuments>>]_vars

\* analyzeTopics has ranked a text by TF-IDF on a corpus that may still
\* grow, with a topic list in the cache
C39_Witness ==
  /\ op = "analyzeTopics"
  /\ ret.value.keywords.recommended = "byTFIDF"
  /\ totalDocuments > 0
  /\ totalDocuments < MAX_CACHE_SIZE
  /\ Len(termFrequencyCache) > 0


====
